---- MODULE Spec2Model ----
(***************************************************************************)
(* Model of the jito-go client runtime: the bundle-submission confirmation *)
(* protocol (block-engine/bundle.go) and the authentication session        *)
(* (pkg/block-engine/authenticator.go).                                    *)
(***************************************************************************)
EXTENDS Integers, Sequences, FiniteSets, TLC

(***************************************************************************)
(* Program constants (block-engine/bundle.go:17-22).                       *)
(***************************************************************************)
CheckBundleRetries == 5
CheckBundleRetryDelay == 5
SignaturesConfirmationTimeout == 15
SignaturesConfirmationRetryDelay == 1

(***************************************************************************)
(* Bounds of the model.                                                    *)
(***************************************************************************)
\* longest batch of transactions handed to SendBundleWithConfirmation
MaxTxs == 2
\* longest time (in units) one GetSignatureStatuses query may take
MaxLatency == 1

\* A transaction is the list of its signatures; a batch is a list of transactions.
TxUniverse == {<<1>>, <<2, 1>>}
SigIds == UNION {{tx[k] : k \in 1..Len(tx)} : tx \in TxUniverse}
Batches == UNION {[1..n -> TxUniverse] : n \in 1..MaxTxs}

\* rpc.ConfirmationStatus values, and "nil" for an absent status entry.
ConfirmationStatusProcessed == "processed"
ConfirmationStatusConfirmed == "confirmed"
ConfirmationStatusFinalized == "finalized"

Payloads == {"p", "q"}

VARIABLES
    \* ---- the authentication session (AuthenticationService) ----
    keyPair,        \* TRUE iff the client authenticated with a key pair
    GRPCCtx,        \* AuthenticationService.GRPCCtx
    BearerToken,    \* AuthenticationService.BearerToken (0: the empty string)
    ExpiresAt,      \* AuthenticationService.ExpiresAt
    mu,             \* AuthenticationService.mu: "free" or the task holding it
    authRet,        \* what AuthenticateAndRefresh returned (NotReturned before it returns)
    ErrChan,        \* AuthenticationService.ErrChan, a buffered channel
    ppc,            \* position of AuthenticateAndRefresh ("main") and of the refresh goroutines ("task", "task2")
    ptok,           \* the token each of the two is installing
    issued,         \* access tokens the auth service has issued so far
    seen,           \* what the last unsynchronised read of the session's fields saw
    cancelled,      \* the roots of the contexts that have been cancelled
    \* ---- one call of SendBundleWithConfirmation ----
    transactions,   \* the batch handed to the call
    otherBundles,   \* TRUE iff other bundles were submitted through the same client
    pc,             \* position of the call
    i,              \* outer loop counter
    elapsed,        \* time.Since(start) inside waitForSignatureStatuses
    bundleResult,   \* the value the last stream read returned, until the next statement
    bundleId,       \* the bundle that value concerns (its BundleId): "own", "other", "none"
    ret,            \* what the call returned
    statuses,       \* the statuses the returning iteration validated
    nSend, nRecv, nPoll,  \* SendBundle RPCs, stream reads, status sub-loops so far
    nRecvErr,       \* stream reads that returned an error
    waited,         \* time the call has spent in its sleeps of CheckBundleRetryDelay
    \* ---- the environment ----
    stream,         \* push stream: "idle" (nothing to read), "ready", "broken"
    ledger,         \* status of every signature on the ledger
    \* ---- one call of CreateGRPCConnection and its health goroutine ----
    grpcAddr,       \* the endpoint handed to the call: a sequence of tokens
    chErr,          \* the error channel handed to the call: "unbuffered" or "nil"
    chans,          \* every channel dialled so far: address, options, state, who closed it
    conn,           \* the variable conn of the call and of its goroutine (0: nil)
    connRet,        \* what CreateGRPCConnection returned
    mpc,            \* position of the call: "call", "return", "done"
    hpc,            \* position of the health goroutine
    retries,        \* the goroutine's retries counter
    state,          \* the goroutine's local state, "none" outside an iteration
    herr,           \* the error the goroutine is sending on chErr
    recvd,          \* the last error a consumer received from chErr
    run,            \* non-Ready observations since the last Ready observation
    replaced,       \* forced replacements (Close, then DialContext) during that run
    \* ---- one subscription forwarding goroutine (On...Subscription) ----
    fkind,          \* which of the five methods started it
    fpc,            \* its position: "off", "select", "recv", "sendErr", "send", "exited"
    fval,           \* what its last sub.Recv() returned, until it is sent
    consumer,       \* the reader of the two returned channels: "reading" or "stopped"
    got,            \* what the reader received, in order
    nRead,          \* sub.Recv() calls that returned so far
    ErrCh,          \* the buffer of StreamClient.ErrCh (empty for the unbuffered chErr)
    \* ---- the auth service's tokens and the clock ----
    clock,          \* time.Now(), in seconds since the session was created
    expiries,       \* the expiry of every access token issued so far, in order
    respToken,      \* the local respToken of the last call of AuthenticateAndRefresh
    captured,       \* the respToken each refresh goroutine's closure holds
    request,        \* the last RefreshAccessTokenRequest sent
    installed,      \* the token of the last updateAuthorizationMetadata to take the lock
    \* ---- one call of NewSearcherClient, NewValidator or NewRelayer ----
    ckind,          \* which constructor: "Searcher", "Validator", "Relayer"
    cpc,            \* its position: "off", "dial", "auth", "subscribe", "returned", "failed"
    authService,    \* its variable authService: "nil", "bare" (GRPCCtx only), "session"
    opRet,          \* what an operation on the returned client came back with
    \* ---- a Geyser StreamClient ----
    SubscribeRequest,   \* StreamClient.SubscribeRequest, the request held locally
    received,           \* the last request the server received from a Send that succeeded
    sendRet             \* what the last filter operation came back with

vars == <<keyPair, GRPCCtx, BearerToken, ExpiresAt, mu, authRet, ErrChan, ppc, ptok, issued, seen,
          cancelled, transactions, otherBundles, pc, i, elapsed, bundleResult, bundleId,
          ret, statuses, nSend, nRecv, nRecvErr, waited, nPoll, stream, ledger,
          grpcAddr, chErr, chans, conn, connRet, mpc, hpc, retries, state, herr, recvd,
          run, replaced, fkind, fpc, fval, consumer, got, nRead, ErrCh,
          clock, expiries, respToken, captured, request, installed,
          ckind, cpc, authService, opRet, SubscribeRequest, received, sendRet>>

authVars == <<keyPair, GRPCCtx, BearerToken, ExpiresAt, mu, authRet, ErrChan, ppc, ptok, issued,
              seen>>

callVars == <<transactions, otherBundles, pc, i, elapsed, bundleResult, bundleId, ret, statuses, nSend, nRecv, nRecvErr, waited, nPoll,
              stream, ledger>>

connVars == <<grpcAddr, chErr, chans, conn, connRet, mpc, hpc, retries, state, herr, recvd,
              run, replaced>>

fwdVars == <<fkind, fpc, fval, consumer, got, nRead, ErrCh>>

tokVars == <<clock, expiries, respToken, captured, request, installed>>

newVars == <<ckind, cpc, authService, opRet>>

geyVars == <<SubscribeRequest, received, sendRet>>

(***************************************************************************)
(* Contexts.  A context is known by the root it was derived from and by    *)
(* the authorization metadata it carries (<<>>: none).  context.Background() *)
(* is never cancelled.                                                     *)
(***************************************************************************)
Background == [root |-> "background", auth |-> <<>>]
WithCancel(r) == [root |-> r, auth |-> <<>>]
Done(ctx) == ctx.root \in cancelled

NewOutgoingContext_NoPrefix(tokenValue) == [root |-> "background", auth |-> <<tokenValue>>]

\* metadata.NewOutgoingContext(context.Background(),
\*     metadata.Pairs("authorization", "Bearer "+token.Value))
NewOutgoingContext(tokenValue) == [root |-> "background", auth |-> <<"Bearer ", tokenValue>>]

\* A token of the auth service (jito_pb.Token): its value and its expiry, in
\* seconds.  The n-th access token the service issues has value n.
Token(n, e) == [Value |-> n, Seconds |-> e]
NoToken == [Value |-> 0, Seconds |-> 0]

\* How long the access tokens the service issues stay valid, and the values of
\* the refresh tokens it hands out.
Lifetimes == {10, 40}
RefreshValues == {101, 102}

\* The access token of a session that was authenticated before the modelled run.
FirstToken == Token(1, 40)

\* GenerateAuthTokensResponse: an access token and a refresh token.
NoResp == [AccessToken |-> NoToken, RefreshToken |-> NoToken]
NoRequest == [RefreshToken |-> 0]

\* The tokens and the clock of a session on which no handshake is running.
TokIdle(authed) ==
    /\ clock = 0
    /\ expiries = (IF authed THEN <<FirstToken.Seconds>> ELSE <<>>)
    /\ respToken = NoResp
    /\ captured = [task |-> NoResp, task2 |-> NoResp]
    /\ request = NoRequest
    /\ installed = (IF authed THEN FirstToken ELSE NoToken)

\* The session as NewSearcherClient leaves it: authenticated (GRPCCtx replaced
\* by updateAuthorizationMetadata) or a bare session holding the given context.
SessionCtx(kp, tokenValue) ==
    IF kp THEN NewOutgoingContext(tokenValue) ELSE WithCancel("owner")

(***************************************************************************)
(* Errors.                                                                 *)
(***************************************************************************)
NoErr == [type |-> "nil", Message |-> <<>>]
\* the call has not returned (or was never made)
NotReturned == [type |-> "none", Message |-> <<>>]
CtxCanceled == [type |-> "context", Message |-> <<"context canceled">>]
ErrConvert == [type |-> "error", Message |-> <<"marshal">>]
ErrRPC == [type |-> "error", Message |-> <<"rpc">>]
ErrMaxRetries ==
    [type |-> "error",
     Message |-> <<"BroadcastBundleWithConfirmation error: max retries (",
                   ToString(CheckBundleRetries), ") exceeded">>]

NewStateAuctionBidRejectedError(auction, tip) ==
    [type |-> "BundleRejectionError",
     Message |-> <<"bundle lost state auction, auction: ", auction, ", tip ", tip, " lamports">>]
NewWinningBatchBidRejectedError(auction, tip) ==
    [type |-> "BundleRejectionError",
     Message |-> <<"bundle won state auction but failed global auction, auction ", auction,
                   ", tip ", tip, " lamports">>]
NewSimulationFailureError(tx, message) ==
    [type |-> "BundleRejectionError",
     Message |-> <<"bundle simulation failure on tx ", tx, ", message: ", message>>]
NewInternalError(message) ==
    [type |-> "BundleRejectionError", Message |-> <<"internal error ", message>>]
NewDroppedBundle(message) ==
    [type |-> "BundleRejectionError", Message |-> <<"bundle dropped ", message>>]

(***************************************************************************)
(* Bundle results read from the push stream.                               *)
(***************************************************************************)
Reasons == {"SimulationFailure", "StateAuctionBidRejected", "WinningBatchBidRejected",
            "InternalError", "DroppedBundle"}
NoResult == [kind |-> "nil", reason |-> "Unset", f1 |-> "", f2 |-> ""]
Accepted == [kind |-> "Accepted", reason |-> "Unset", f1 |-> "", f2 |-> ""]
Rejected(r, a, b) == [kind |-> "Rejected", reason |-> r, f1 |-> a, f2 |-> b]
BundleResults ==
    {Accepted, [kind |-> "Unset", reason |-> "Unset", f1 |-> "", f2 |-> ""],
     Rejected("Unset", "", "")}
    \cup {Rejected(r, a, b) : r \in {"SimulationFailure", "StateAuctionBidRejected",
                                      "WinningBatchBidRejected"},
                              a \in Payloads, b \in Payloads}
    \cup {Rejected(r, a, "") : r \in {"InternalError", "DroppedBundle"}, a \in Payloads}

\* mutant: a simulation failure is not turned into an error
handleBundleResult_DropsSimulationFailure(res) ==
    IF res.kind = "Rejected" /\ res.reason \in Reasons \ {"SimulationFailure"}
    THEN CASE res.reason = "StateAuctionBidRejected" ->
                NewStateAuctionBidRejectedError(res.f1, res.f2)
           [] res.reason = "WinningBatchBidRejected" ->
                NewWinningBatchBidRejectedError(res.f1, res.f2)
           [] res.reason = "InternalError" -> NewInternalError(res.f1)
           [] OTHER -> NewDroppedBundle(res.f1)
    ELSE NoErr

\* mutant: a dropped bundle is reported with the constructor of the case above it
handleBundleResult_DroppedAsInternal(res) ==
    IF res.kind = "Rejected" /\ res.reason \in Reasons
    THEN CASE res.reason = "SimulationFailure" -> NewSimulationFailureError(res.f1, res.f2)
           [] res.reason = "StateAuctionBidRejected" ->
                NewStateAuctionBidRejectedError(res.f1, res.f2)
           [] res.reason = "WinningBatchBidRejected" ->
                NewWinningBatchBidRejectedError(res.f1, res.f2)
           [] OTHER -> NewInternalError(res.f1)
    ELSE NoErr

handleBundleResult(res) ==
    IF res.kind = "Accepted" THEN NoErr
    ELSE IF res.kind = "Rejected" THEN
        CASE res.reason = "SimulationFailure" -> NewSimulationFailureError(res.f1, res.f2)
          [] res.reason = "StateAuctionBidRejected" ->
                NewStateAuctionBidRejectedError(res.f1, res.f2)
          [] res.reason = "WinningBatchBidRejected" ->
                NewWinningBatchBidRejectedError(res.f1, res.f2)
          [] res.reason = "InternalError" -> NewInternalError(res.f1)
          [] res.reason = "DroppedBundle" -> NewDroppedBundle(res.f1)
          [] OTHER -> NoErr
    ELSE NoErr

(***************************************************************************)
(* Signatures and statuses.                                                *)
(***************************************************************************)
BatchExtractSigFromTx(txs) == [k \in 1..Len(txs) |-> txs[k][1]]

\* mutant: one present status is enough
CheckSignatureStatuses_Any(sts) == \E k \in 1..Len(sts) : sts[k] # "nil"

CheckSignatureStatuses(sts) == \A k \in 1..Len(sts) : sts[k] # "nil"

\* mutant: every present status passes, whatever its level
ValidateSignatureStatuses_AnyLevel(sts) ==
    IF \E k \in 1..Len(sts) : sts[k] = "nil" THEN "panic" ELSE "nil"

\* "panic" stands for the nil dereference of status.ConfirmationStatus.
ValidateSignatureStatuses(sts) ==
    IF \E k \in 1..Len(sts) : sts[k] = "nil" THEN "panic"
    ELSE IF \E k \in 1..Len(sts) :
                /\ sts[k] # ConfirmationStatusProcessed
                /\ sts[k] # ConfirmationStatusConfirmed
         THEN "error"
    ELSE "nil"

\* RPCConn.GetSignatureStatuses: one entry per requested signature.
GetSignatureStatuses(sigs) == [k \in 1..Len(sigs) |-> ledger[sigs[k]]]

(***************************************************************************)
(* SendBundleWithConfirmation.                                             *)
(***************************************************************************)
Return(resp, sigs, err) ==
    /\ ret' = [resp |-> resp, sigs |-> sigs, err |-> err]
    /\ pc' = "done"

\* mutant: a failed SendBundle RPC is tried again
SendBundle_Resends ==
    /\ pc = "send"
    /\ \E o \in {"ok", "convErr", "rpcErr"} :
        IF o = "convErr"
        THEN /\ Return("nil", <<>>, ErrConvert)
             /\ UNCHANGED nSend
        ELSE /\ nSend' = nSend + 1
             /\ IF o = "rpcErr" \/ Done(GRPCCtx)
                THEN /\ nSend < CheckBundleRetries
                     /\ UNCHANGED <<pc, ret>>
                ELSE pc' = "loop" /\ UNCHANGED ret
    /\ UNCHANGED <<tokVars, fwdVars, newVars, geyVars, connVars, authVars, cancelled, transactions, otherBundles, i, elapsed, bundleResult, bundleId, statuses,
                   nRecv, nRecvErr, waited, nPoll, stream, ledger>>

\* bundle.go:33-36 with SendBundle and NewBundle: the batch is converted and
\* sent once; either error ends the call.
SendBundle ==
    /\ pc = "send"
    /\ \E o \in {"ok", "convErr", "rpcErr"} :
        IF o = "convErr"
        THEN /\ Return("nil", <<>>, ErrConvert)
             /\ UNCHANGED nSend
        ELSE /\ nSend' = nSend + 1
             /\ IF o = "rpcErr" \/ Done(GRPCCtx)
                THEN Return("nil", <<>>, IF Done(GRPCCtx) THEN CtxCanceled ELSE ErrRPC)
                ELSE pc' = "loop" /\ UNCHANGED ret
    /\ UNCHANGED <<tokVars, fwdVars, newVars, geyVars, connVars, authVars, cancelled, transactions, otherBundles, i, elapsed, bundleResult, bundleId, statuses,
                   nRecv, nRecvErr, waited, nPoll, stream, ledger>>

\* bundle.go:39-46 and 81: the loop test, the select on GRPCCtx.Done() and
\* the sleep of CheckBundleRetryDelay.
budgetSpent_OneMore(k) == ~(k <= CheckBundleRetries)

\* bundle.go:39: the loop runs while i < CheckBundleRetries
budgetSpent(k) == ~(k < CheckBundleRetries)

LoopHead ==
    /\ pc = "loop"
    /\ IF budgetSpent(i) THEN Return("nil", <<>>, ErrMaxRetries) /\ UNCHANGED waited
       ELSE IF Done(GRPCCtx) THEN Return("nil", <<>>, CtxCanceled) /\ UNCHANGED waited
       ELSE /\ waited' = waited + CheckBundleRetryDelay
            /\ pc' = "recv"
            /\ UNCHANGED ret
    /\ UNCHANGED <<tokVars, fwdVars, newVars, geyVars, connVars, authVars, cancelled, transactions, otherBundles, i, elapsed, bundleResult, bundleId, statuses,
                   nSend, nRecv, nRecvErr, nPoll, stream, ledger>>

\* The stream was subscribed with the session's context: its cancellation
\* ends the stream.
StreamFailed == stream = "broken" \/ Done(GRPCCtx)

onReceiveError_Returns == Return("nil", <<>>, ErrRPC)

\* bundle.go:50-52: the read's error is logged, the iteration goes on
onReceiveError == pc' = "wait" /\ UNCHANGED ret

\* bundle.go:48-59 with receiveBundleResult: a blocking Recv, then
\* handleBundleResult on what was read.
ReceiveBundleResult ==
    /\ pc = "recv"
    /\ nRecv' = nRecv + 1
    /\ \/ /\ StreamFailed
          /\ bundleResult' = NoResult
          /\ bundleId' = "none"
          /\ nRecvErr' = nRecvErr + 1
          /\ onReceiveError
          /\ UNCHANGED stream
       \/ /\ ~StreamFailed
          /\ UNCHANGED nRecvErr
          /\ stream = "ready"
          /\ \E res \in BundleResults, more \in {"idle", "ready"},
                id \in (IF otherBundles THEN {"own", "other"} ELSE {"own"}) :
                /\ bundleResult' = res
                /\ bundleId' = id
                /\ stream' = more
                /\ IF handleBundleResult(res) # NoErr
                   THEN Return("nil", <<>>, handleBundleResult(res))
                   ELSE pc' = "wait" /\ UNCHANGED ret
    /\ UNCHANGED <<tokVars, fwdVars, newVars, geyVars, connVars, authVars, cancelled, transactions, otherBundles, i, elapsed, statuses, nSend, nPoll,
                   waited, ledger>>

\* bundle.go:62 and 152: entry of waitForSignatureStatuses, start := time.Now().
WaitEntry ==
    /\ pc = "wait"
    /\ pc' = "query"
    /\ elapsed' = 0
    /\ nPoll' = nPoll + 1
    /\ bundleResult' = NoResult
    /\ bundleId' = "none"
    /\ UNCHANGED <<tokVars, fwdVars, newVars, geyVars, connVars, authVars, cancelled, transactions, otherBundles, i, ret, statuses, nSend, nRecv, nRecvErr, waited,
                   stream, ledger>>

\* `continue`: the locals of the iteration (the sub-loop's clock among them) die.
Continue ==
    /\ i' = i + 1
    /\ pc' = "loop"
    /\ elapsed' = 0
    /\ UNCHANGED <<ret, statuses>>

timedOut_OuterBudget(t) == t > CheckBundleRetries * CheckBundleRetryDelay

\* bundle.go:169: time.Since(start) > SignaturesConfirmationTimeout
timedOut(t) == t > SignaturesConfirmationTimeout

\* bundle.go:153-176 and 63-77: one round of the status sub-loop (query,
\* check, timeout test, sleep) and, when it ends, the rest of the iteration.
\* outcomes: whether the GetSignatureStatuses RPC may answer (TRUE), fail (FALSE).
QueryStatusesOf(outcomes) ==
    /\ pc = "query"
    /\ \E rpcOk \in outcomes, lat \in 0..MaxLatency :
        LET sts == GetSignatureStatuses(BatchExtractSigFromTx(transactions))
            now == elapsed + lat
        IN  IF ~rpcOk \/ "caller" \in cancelled
            THEN Continue
            ELSE IF CheckSignatureStatuses(sts)
            THEN CASE ValidateSignatureStatuses(sts) = "nil" ->
                            /\ Return("ack", BatchExtractSigFromTx(transactions), NoErr)
                            /\ statuses' = sts
                            /\ elapsed' = 0
                            /\ UNCHANGED i
                      [] ValidateSignatureStatuses(sts) = "error" -> Continue
                      [] OTHER ->
                            /\ Return("nil", <<>>, [type |-> "panic", Message |-> <<>>])
                            /\ elapsed' = 0
                            /\ UNCHANGED <<i, statuses>>
            ELSE IF timedOut(now)
            THEN Continue
            ELSE /\ elapsed' = now + SignaturesConfirmationRetryDelay
                 /\ UNCHANGED <<pc, i, ret, statuses>>
    /\ UNCHANGED <<tokVars, fwdVars, newVars, geyVars, connVars, authVars, cancelled, transactions, otherBundles, bundleResult, bundleId, nSend, nRecv, nRecvErr, waited, nPoll,
                   stream, ledger>>

QueryStatuses == QueryStatusesOf(BOOLEAN)

(***************************************************************************)
(* Environment of the call.                                                *)
(***************************************************************************)
NextLevel(s) ==
    CASE s = "nil" -> ConfirmationStatusProcessed
      [] s = ConfirmationStatusProcessed -> ConfirmationStatusConfirmed
      [] OTHER -> ConfirmationStatusFinalized

LedgerAdvance ==
    /\ pc # "done"
    /\ \E s \in SigIds :
        /\ ledger[s] # ConfirmationStatusFinalized
        /\ ledger' = [ledger EXCEPT ![s] = NextLevel(ledger[s])]
    /\ UNCHANGED <<tokVars, fwdVars, newVars, geyVars, connVars, authVars, cancelled, transactions, otherBundles, pc, i, elapsed, bundleResult, bundleId, ret,
                   statuses, nSend, nRecv, nRecvErr, waited, nPoll, stream>>

StreamEvent ==
    /\ pc # "done"
    /\ \/ stream = "idle" /\ stream' = "ready"
       \/ stream # "broken" /\ stream' = "broken"
    /\ UNCHANGED <<tokVars, fwdVars, newVars, geyVars, connVars, authVars, cancelled, transactions, otherBundles, pc, i, elapsed, bundleResult, bundleId, ret,
                   statuses, nSend, nRecv, nRecvErr, waited, nPoll, ledger>>

Cancel ==
    /\ pc # "done"
    /\ \E r \in {"owner", "caller"} :
        /\ r \notin cancelled
        /\ cancelled' = cancelled \cup {r}
    /\ UNCHANGED <<tokVars, fwdVars, newVars, geyVars, connVars, authVars, transactions, otherBundles, pc, i, elapsed, bundleResult, bundleId, ret, statuses,
                   nSend, nRecv, nRecvErr, waited, nPoll, stream, ledger>>

\* A constructed client (searcher.go:41-50), a call of SendBundleWithConfirmation
\* about to start.  "owner" is the context the session was created with: the one
\* stored in the bare session (no key pair), or the one given to
\* NewAuthenticationService, whose GRPCCtx updateAuthorizationMetadata has since
\* replaced (key pair).  "caller" is the ctx argument of the call.  The refresh
\* goroutine of an authenticated session is left out of this specification:
\* every credential it installs is again derived from context.Background().
\* No call of CreateGRPCConnection is under way (the client's channel is taken as
\* given by the other specifications).
ConnIdle ==
    /\ grpcAddr = <<>>
    /\ chErr = "nil"
    /\ chans = <<>>
    /\ conn = 0
    /\ connRet = [conn |-> 0, err |-> NotReturned]
    /\ mpc = "done"
    /\ hpc = "off"
    /\ retries = 0
    /\ state = "none"
    /\ herr = NoErr
    /\ recvd = NoErr
    /\ run = 0
    /\ replaced = 0

\* a value read from a subscription stream: kind "resp" or "err", whether the
\* read returned after the goroutine's cancellation signal had fired, and its
\* position among the reads of the stream
NoItem == [kind |-> "none", late |-> FALSE, seq |-> 0]

\* No forwarding goroutine was started.
FwdIdle ==
    /\ fkind = "OnPacketSubscription"
    /\ fpc = "off"
    /\ fval = NoItem
    /\ consumer = "reading"
    /\ got = <<>>
    /\ nRead = 0
    /\ ErrCh = <<>>

\* No constructor is running and no operation of a client is under way.
NewIdle ==
    /\ ckind = "Searcher"
    /\ cpc = "off"
    /\ authService = "nil"
    /\ opRet = "none"

FilterNames == {"f1", "f2"}

\* a map entry that is not there (the lookup gives a nil pointer)
NoFilter == [set |-> FALSE, Account |-> <<>>]

\* part_003:57-68: the request of a new StreamClient, every map empty
EmptyRequest ==
    [Accounts |-> [n \in FilterNames |-> NoFilter],
     Slots |-> [n \in FilterNames |-> "nil"],
     AccountsDataSlice |-> <<>>]

\* No filter operation was called on a StreamClient.
GeyIdle ==
    /\ SubscribeRequest = EmptyRequest
    /\ received = EmptyRequest
    /\ sendRet = "none"

\* A client as NewSearcherClient returns it, SendBundleWithConfirmation about
\* to be called on a batch.
CallInit ==
    /\ ConnIdle
    /\ FwdIdle
    /\ NewIdle
    /\ GeyIdle
    /\ keyPair \in BOOLEAN
    /\ TokIdle(keyPair)
    /\ GRPCCtx = SessionCtx(keyPair, FirstToken.Value)
    /\ BearerToken = (IF keyPair THEN FirstToken.Value ELSE 0)
    /\ ExpiresAt = (IF keyPair THEN FirstToken.Seconds ELSE 0)
    /\ mu = "free"
    /\ authRet = (IF keyPair THEN NoErr ELSE NotReturned)
    /\ ErrChan = <<>>
    /\ ppc = [main |-> "returned", task |-> "off", task2 |-> "off"]
    /\ ptok = [main |-> NoToken, task |-> NoToken, task2 |-> NoToken]
    /\ issued = (IF keyPair THEN 1 ELSE 0)
    /\ seen = [ctx |-> <<>>, bearer |-> 0, expiry |-> 0]
    /\ cancelled = {}
    /\ transactions \in Batches
    /\ pc = "send"
    /\ i = 0
    /\ elapsed = 0
    /\ bundleResult = NoResult
    /\ bundleId = "none"
    /\ ret = [resp |-> "nil", sigs |-> <<>>, err |-> NoErr]
    /\ statuses = <<>>
    /\ nSend = 0 /\ nRecv = 0 /\ nRecvErr = 0 /\ nPoll = 0 /\ waited = 0
    /\ stream \in {"idle", "ready"}
    /\ ledger = [s \in SigIds |-> "nil"]

\* The call's bundle is the only one submitted through the client.
Init == CallInit /\ otherBundles = FALSE

\* Other bundles went through the same client: the one push stream of the client
\* (searcher.go:52-59) carries their results too.  Batches of one transaction.
SharedInit == CallInit /\ otherBundles = TRUE /\ Len(transactions) = 1

CallNext == SendBundle \/ LoopHead \/ ReceiveBundleResult \/ WaitEntry \/ QueryStatuses

Next == CallNext \/ LedgerAdvance \/ StreamEvent \/ Cancel

Spec == Init /\ [][Next]_vars

\* The calling goroutine runs whenever it can take a step (a Recv with nothing to
\* read cannot); nothing obliges the stream to deliver, the ledger to advance or
\* anyone to cancel.
FairSpec == Spec /\ WF_vars(CallNext)

SharedSpec == SharedInit /\ [][Next]_vars

\* The same call against a status endpoint that answers every query.
ReliableNext ==
    \/ SendBundle \/ LoopHead \/ ReceiveBundleResult \/ WaitEntry
    \/ QueryStatusesOf({TRUE})
    \/ LedgerAdvance \/ StreamEvent \/ Cancel

ReliableSpec == Init /\ [][ReliableNext]_vars

(***************************************************************************)
(* Claims about SendBundleWithConfirmation.                                *)
(***************************************************************************)
Sigs == BatchExtractSigFromTx(transactions)
SomeAbsent == \E k \in 1..Len(Sigs) : ledger[Sigs[k]] = "nil"
AllConfirmed == \A k \in 1..Len(Sigs) : ledger[Sigs[k]] = ConfirmationStatusConfirmed
IsRejection(e) == e.type = "BundleRejectionError"

\* C1: once a Rejected(SimulationFailure{sig, msg}) result has been read in outer
\* iteration i, the call has returned exactly the simulation-failure error for
\* (sig, msg), with no response; it was read by the read of that iteration (reads
\* so far: i + 1) and no status sub-loop was started in that iteration (sub-loops
\* so far: i, one per earlier iteration).  Nothing happens after the return.
C1_SimulationFailureReturnsAtOnce ==
    (bundleResult.kind = "Rejected" /\ bundleResult.reason = "SimulationFailure") =>
        /\ pc = "done"
        /\ ret = [resp |-> "nil", sigs |-> <<>>,
                  err |-> NewSimulationFailureError(bundleResult.f1, bundleResult.f2)]
        /\ nRecv = i + 1
        /\ nPoll = i
        /\ ~ENABLED CallNext

\* the rejection arrived in iteration 2 of 5
C1_Witness ==
    /\ bundleResult = Rejected("SimulationFailure", "p", "q")
    /\ i = 1
    /\ pc = "done"
    /\ nPoll = 1

\* C2: with a silent, unbroken push stream the status poll of an iteration is still
\* carried out: whenever the call stands at the stream read of an iteration and
\* every status of the batch is confirmed, the call can take its next step (and so
\* go on to the poll that gives success).
C2_SilentStreamStillPolls ==
    (pc = "recv" /\ AllConfirmed) => ENABLED CallNext

\* C3: a call that ended while a status of the batch is still absent returned no
\* response and no signatures, and, unless it was rejected, cancelled or never
\* submitted, it returned the max-retries-exceeded error after all 5 iterations
\* (5 stream reads, 5 status sub-loops).
C3_AbsentStatusesEndInMaxRetries ==
    (pc = "done" /\ SomeAbsent) =>
        /\ ret.resp = "nil" /\ ret.sigs = <<>>
        /\ \/ /\ ret.err = ErrMaxRetries
              /\ i = CheckBundleRetries
              /\ nRecv = CheckBundleRetries
              /\ nPoll = CheckBundleRetries
           \/ /\ IsRejection(ret.err) \/ ret.err \in {CtxCanceled, ErrConvert, ErrRPC}
              /\ i < CheckBundleRetries

C3_Witness ==
    /\ pc = "done" /\ SomeAbsent
    /\ ret.err = ErrMaxRetries
    /\ \E k \in 1..Len(Sigs) : ledger[Sigs[k]] # "nil"

\* C4: a call that returned success went through at least one status sub-loop, and
\* the statuses its last query returned are one per transaction of the batch, the
\* ledger's, none absent and each at level processed or confirmed.
C4_SuccessNeedsLedgerStatus ==
    (pc = "done" /\ ret.err = NoErr) =>
        /\ ret.resp = "ack"
        /\ nPoll >= 1
        /\ statuses = GetSignatureStatuses(Sigs)
        /\ Len(statuses) = Len(transactions)
        /\ \A k \in 1..Len(statuses) :
              statuses[k] \in {ConfirmationStatusProcessed, ConfirmationStatusConfirmed}

C4_Witness ==
    /\ pc = "done" /\ ret.err = NoErr
    /\ Len(transactions) = 2
    /\ statuses = <<ConfirmationStatusProcessed, ConfirmationStatusConfirmed>>

\* C5: whenever a Rejected result has been read, whatever its reason, the call has
\* returned a rejection error.
C5_NoRejectionDropped ==
    bundleResult.kind = "Rejected" => (pc = "done" /\ IsRejection(ret.err))

\* C6: the SendBundle RPC is issued at most once, and exactly once before any
\* stream read or status sub-loop; a call that returned the conversion or the
\* RPC error did no stream read and no status poll, and the conversion error
\* means no RPC at all.
C6_SendOnceBeforeLoop ==
    /\ nSend <= 1
    /\ (pc \in {"loop", "recv", "wait", "query"} \/ nRecv > 0 \/ nPoll > 0) => nSend = 1
    /\ (pc = "done" /\ ret.err \in {ErrConvert, ErrRPC}) =>
          /\ nRecv = 0 /\ nPoll = 0 /\ i = 0
          /\ ret.resp = "nil"
          /\ nSend = (IF ret.err = ErrConvert THEN 0 ELSE 1)

C6_Witness == pc = "done" /\ ret.err = ErrRPC /\ nSend = 1

\* C7: when the call reaches the start of an outer iteration with the context the
\* session was created with cancelled, it returns the cancellation error there.
C7_OwnerCancelAborts ==
    [][(pc = "loop" /\ i < CheckBundleRetries /\ "owner" \in cancelled /\ pc' # "loop")
        => (pc' = "done" /\ ret'.err = CtxCanceled)]_vars

\* C8: a call during which the caller's context was cancelled does not return the
\* max-retries-exceeded error.
C8_CallerCancelPreempts ==
    (pc = "done" /\ "caller" \in cancelled) => ret.err # ErrMaxRetries

\* C31: the status sub-loop measures its time from its own entry; it queries again,
\* in the same outer iteration, only while a status is absent and no more than 15
\* units have passed since that entry, the next query following after the query's
\* own duration and a wait of 1 unit; so no query starts later than 16 units after
\* the entry.  When the sub-loop ends without statuses (timeout or query error) the
\* outer loop goes to its next iteration and the call has not returned.
C31_SubLoopCeiling ==
    /\ [](pc = "query" =>
            elapsed <= SignaturesConfirmationTimeout + SignaturesConfirmationRetryDelay)
    /\ [][(pc = "wait" /\ pc' = "query") => elapsed' = 0]_vars
    /\ [][(pc = "query" /\ pc' = "query" /\ elapsed' # elapsed) =>
            /\ ~CheckSignatureStatuses(GetSignatureStatuses(Sigs))
            /\ elapsed <= SignaturesConfirmationTimeout
            /\ elapsed' - elapsed - SignaturesConfirmationRetryDelay \in 0..MaxLatency
            /\ i' = i /\ ret' = ret /\ nPoll' = nPoll]_vars
    /\ [][(pc = "query" /\ pc' = "loop") =>
            (i' = i + 1 /\ ret' = ret /\ elapsed' = 0)]_vars
    /\ [][(pc = "query" /\ elapsed > SignaturesConfirmationTimeout /\ SomeAbsent
            /\ (pc' # pc \/ elapsed' # elapsed)) => pc' = "loop"]_vars

\* the sub-loop of the second iteration at its last query, 16 units after its entry
C31_Witness ==
    /\ pc = "query" /\ i = 1 /\ nPoll = 2 /\ SomeAbsent
    /\ elapsed = SignaturesConfirmationTimeout + SignaturesConfirmationRetryDelay

\* C32: a call makes at most 5 stream reads and starts at most 5 status sub-loops;
\* every stream read comes after a wait of CheckBundleRetryDelay of its own; and
\* the reads and sub-loops alternate, one of each per iteration: the read of
\* iteration i is the (i+1)-th read and starts after i sub-loops have ended, the
\* sub-loop of iteration i is the (i+1)-th and starts after i+1 reads have ended.
C32_BoundedSequentialLoop ==
    /\ nRecv <= CheckBundleRetries /\ nPoll <= CheckBundleRetries /\ i <= CheckBundleRetries
    /\ waited = CheckBundleRetryDelay * (IF pc = "recv" THEN nRecv + 1 ELSE nRecv)
    /\ pc \in {"loop", "recv"} => (nRecv = i /\ nPoll = i)
    /\ pc = "wait" => (nRecv = i + 1 /\ nPoll = i)
    /\ pc = "query" => (nRecv = i + 1 /\ nPoll = i + 1)
    /\ pc = "send" => (nRecv = 0 /\ nPoll = 0)

\* the whole budget used: five waits, five reads, five sub-loops
C32_Witness ==
    /\ pc = "done" /\ ret.err = ErrMaxRetries
    /\ nRecv = CheckBundleRetries /\ nPoll = CheckBundleRetries
    /\ waited = CheckBundleRetries * CheckBundleRetryDelay

\* C33: every call returns in the end, whatever the push stream does.
C33_CallReturns == <>(pc = "done")

\* C34: a call consumes only events that concern its own bundle, and it has
\* returned a rejection error only on a Rejected event that concerns its own bundle.
C34_RejectionIsOwn ==
    /\ bundleResult # NoResult => bundleId = "own"
    /\ (pc = "done" /\ IsRejection(ret.err)) => bundleId = "own"

AllPresent == \A k \in 1..Len(Sigs) : ledger[Sigs[k]] # "nil"

\* C35: an iteration whose status poll is answered, the caller's context live,
\* with every signature of the batch present at level processed or later does not
\* end without the call returning; so a call whose statuses are present from some
\* iteration of the budget on does not run into max-retries-exceeded.
C35_PresentStatusesGiveSuccess ==
    [][(pc = "query" /\ pc' = "loop" /\ "caller" \notin cancelled) => ~AllPresent]_vars

\* C21: a rejection error returned by the call is the one of the reason that was
\* read: its text starts with the words of that reason and carries the reason's
\* fields, no event of another reason yields the same error, and the
\* max-retries error is no rejection error and equals none.
C21_ClassificationKept ==
    /\ (pc = "done" /\ IsRejection(ret.err)) =>
          /\ bundleResult.kind = "Rejected" /\ bundleResult.reason \in Reasons
          /\ ret.err.Message[1] =
                (CASE bundleResult.reason = "SimulationFailure" ->
                          "bundle simulation failure on tx "
                   [] bundleResult.reason = "StateAuctionBidRejected" ->
                          "bundle lost state auction, auction: "
                   [] bundleResult.reason = "WinningBatchBidRejected" ->
                          "bundle won state auction but failed global auction, auction "
                   [] bundleResult.reason = "InternalError" -> "internal error "
                   [] OTHER -> "bundle dropped ")
          /\ ret.err.Message[2] = bundleResult.f1
          /\ bundleResult.reason \notin {"InternalError", "DroppedBundle"} =>
                ret.err.Message[4] = bundleResult.f2
          /\ \A res \in BundleResults :
                res.reason # bundleResult.reason => handleBundleResult(res) # ret.err
    /\ (pc = "done" /\ ret.err = ErrMaxRetries) =>
          /\ ~IsRejection(ret.err)
          /\ \A res \in BundleResults : handleBundleResult(res) # ret.err

C21_Witness ==
    /\ pc = "done" /\ ret.err = NewDroppedBundle("q")
    /\ bundleResult = Rejected("DroppedBundle", "q", "")

\* C30: a stream read that errors does not end the call: the call goes on, in
\* the same iteration and with nothing returned, to the status sub-loop, which
\* is started before anything else; and a poll that finds every status confirmed
\* returns success although every stream read so far has errored.
C30_ReadErrorNotFatal ==
    /\ [][(pc = "recv" /\ nRecvErr' # nRecvErr) =>
            (pc' = "wait" /\ ret' = ret /\ i' = i /\ nRecvErr' = nRecvErr + 1)]_vars
    /\ [][(pc = "wait" /\ pc' # "wait") =>
            (pc' = "query" /\ nPoll' = nPoll + 1 /\ i' = i /\ ret' = ret)]_vars
    /\ [][(pc = "query" /\ nRecvErr = nRecv /\ AllConfirmed /\ pc' = "done") =>
            (ret'.resp = "ack" /\ ret'.err = NoErr /\ ret'.sigs = Sigs)]_vars
    /\ [](nRecvErr <= nRecv /\ nPoll <= nRecv)

\* success in the second iteration, both stream reads having errored
C30_Witness ==
    /\ pc = "done" /\ ret.resp = "ack" /\ ret.err = NoErr
    /\ nRecv = 2 /\ nRecvErr = 2 /\ nPoll = 2 /\ i = 1
    /\ Len(transactions) = 2 /\ AllConfirmed

(***************************************************************************)
(* The authentication session: AuthenticateAndRefresh, its refresh         *)
(* goroutine and updateAuthorizationMetadata.                              *)
(***************************************************************************)
\* authenticator.go:38: make(chan error, 1)
ErrChanCap == 1
\* most access tokens the auth service issues in a run
MaxTokens == 3
\* the latest time at which a sleep after a failed refresh may end
MaxTime == 120
\* authenticator.go:90: time.Sleep(1 * time.Minute), in seconds
RetryDelay == 60
\* authenticator.go:95: the 15 seconds kept before the expiry
RefreshMargin == 15

ErrRefresh == [type |-> "error", Message |-> <<"failed to refresh access token: ", "rpc">>]

Goto(p, where) == ppc' = [ppc EXCEPT ![p] = where]

\* The errors of the handshake's three steps (authenticator.go:52-54, 60-62, 70-72),
\* returned as they are.
ErrChallenge == [type |-> "error", Message |-> <<"GenerateAuthChallenge", "rpc">>]
ErrSign == [type |-> "error", Message |-> <<"generateChallengeSignature">>]
ErrTokens == [type |-> "error", Message |-> <<"GenerateAuthTokens", "rpc">>]

GenerateAuthChallenge_LaunchesOnFailure ==
    /\ ppc.main = "challenge"
    /\ \E o \in {"ok", "challengeErr", "signErr"} :
        IF o = "challengeErr" \/ Done(GRPCCtx)
        THEN ppc' = [ppc EXCEPT !.main = "failed", !.task = "select"] /\ authRet' = ErrChallenge
        ELSE IF o = "signErr" THEN Goto("main", "failed") /\ authRet' = ErrSign
        ELSE Goto("main", "tokens") /\ UNCHANGED authRet
    /\ UNCHANGED <<tokVars, fwdVars, newVars, geyVars, connVars, keyPair, GRPCCtx, BearerToken, ExpiresAt, mu, ErrChan, ptok, issued, seen,
                   cancelled, callVars>>

\* authenticator.go:46-62: the challenge request, then the signature; either
\* error is returned.
GenerateAuthChallenge ==
    /\ ppc.main = "challenge"
    /\ \E o \in {"ok", "challengeErr", "signErr"} :
        IF o = "challengeErr" \/ Done(GRPCCtx)
        THEN Goto("main", "failed") /\ authRet' = ErrChallenge
        ELSE IF o = "signErr" THEN Goto("main", "failed") /\ authRet' = ErrSign
        ELSE Goto("main", "tokens") /\ UNCHANGED authRet
    /\ UNCHANGED <<tokVars, fwdVars, newVars, geyVars, connVars, keyPair, GRPCCtx, BearerToken, ExpiresAt, mu, ErrChan, ptok, issued, seen,
                   cancelled, callVars>>

GenerateAuthTokens_LaunchesFirst ==
    /\ ppc.main = "tokens"
    /\ \E ok \in BOOLEAN :
        IF ~ok \/ Done(GRPCCtx)
        THEN /\ Goto("main", "failed") /\ authRet' = ErrTokens
             /\ UNCHANGED <<ptok, issued, expiries, respToken>>
        ELSE \E life \in Lifetimes, rv \in RefreshValues :
             /\ issued' = issued + 1
             /\ expiries' = Append(expiries, clock + life)
             /\ respToken' = [AccessToken |-> Token(issued + 1, clock + life),
                              RefreshToken |-> Token(rv, 0)]
             /\ ptok' = [ptok EXCEPT !.main = respToken'.AccessToken]
             /\ ppc' = [ppc EXCEPT !.main = "lock", !.task = "select"]
             /\ UNCHANGED authRet
    /\ UNCHANGED <<clock, captured, request, installed, fwdVars, newVars, geyVars, connVars, keyPair, GRPCCtx, BearerToken, ExpiresAt, mu,
                   ErrChan, seen, cancelled, callVars>>

\* authenticator.go:65-75: the token exchange; its error is returned, its access
\* token is handed to updateAuthorizationMetadata.
GenerateAuthTokens ==
    /\ ppc.main = "tokens"
    /\ \E ok \in BOOLEAN :
        IF ~ok \/ Done(GRPCCtx)
        THEN /\ Goto("main", "failed") /\ authRet' = ErrTokens
             /\ UNCHANGED <<ptok, issued, expiries, respToken>>
        ELSE \E life \in Lifetimes, rv \in RefreshValues :
             /\ issued' = issued + 1
             /\ expiries' = Append(expiries, clock + life)
             /\ respToken' = [AccessToken |-> Token(issued + 1, clock + life),
                              RefreshToken |-> Token(rv, 0)]
             /\ ptok' = [ptok EXCEPT !.main = respToken'.AccessToken]
             /\ Goto("main", "lock")
             /\ UNCHANGED authRet
    /\ UNCHANGED <<clock, captured, request, installed, fwdVars, newVars, geyVars, connVars, keyPair, GRPCCtx, BearerToken, ExpiresAt, mu,
                   ErrChan, seen, cancelled, callVars>>

\* authenticator.go:116-123, statement by statement: Lock, the three
\* assignments, and the deferred Unlock on return.
updateAuthorizationMetadata(p) ==
    /\ \/ /\ ppc[p] = "lock"
          /\ mu = "free"
          /\ mu' = p
          /\ installed' = ptok[p]
          /\ Goto(p, "setCtx")
          /\ UNCHANGED <<GRPCCtx, BearerToken, ExpiresAt>>
       \/ /\ ppc[p] = "setCtx"
          /\ GRPCCtx' = NewOutgoingContext(ptok[p].Value)
          /\ Goto(p, "setBearer")
          /\ UNCHANGED <<BearerToken, ExpiresAt, mu, installed>>
       \/ /\ ppc[p] = "setBearer"
          /\ BearerToken' = ptok[p].Value
          /\ Goto(p, "setExpiry")
          /\ UNCHANGED <<GRPCCtx, ExpiresAt, mu, installed>>
       \/ /\ ppc[p] = "setExpiry"
          /\ ExpiresAt' = ptok[p].Seconds
          /\ mu' = "free"
          /\ Goto(p, IF p = "main" THEN "launch" ELSE "sleep")
          /\ UNCHANGED <<GRPCCtx, BearerToken, installed>>
    /\ UNCHANGED <<clock, expiries, respToken, captured, request, fwdVars, newVars, geyVars, connVars, keyPair, authRet, ErrChan, ptok,
                   issued, seen, cancelled, callVars>>

\* authenticator.go:78: go func() { ... }()
LaunchRefresh ==
    /\ ppc.main = "launch"
    /\ LET t == IF ppc.task = "off" THEN "task" ELSE "task2"
       IN  /\ ppc' = [ppc EXCEPT !.main = "wait", ![t] = "select"]
           /\ captured' = [captured EXCEPT ![t] = respToken]
    /\ UNCHANGED <<clock, expiries, respToken, request, installed, fwdVars, newVars, geyVars, connVars, keyPair, authRet, GRPCCtx, BearerToken, ExpiresAt, mu, ErrChan, ptok, issued, seen,
                   cancelled, callVars>>

\* authenticator.go:104-112: the wait for a bearer token (an unlocked read), then
\* return nil.
WaitForBearer ==
    /\ ppc.main = "wait"
    /\ IF BearerToken # 0
       THEN Goto("main", "returned") /\ authRet' = NoErr /\ UNCHANGED clock
       ELSE clock' = clock + 1 /\ UNCHANGED <<ppc, authRet>>
    /\ UNCHANGED <<expiries, respToken, captured, request, installed, fwdVars, newVars, geyVars, connVars, keyPair, GRPCCtx, BearerToken, ExpiresAt, mu, ErrChan, ptok, issued, seen,
                   cancelled, callVars>>

\* authenticator.go:80-84: the select of the goroutine on as.GRPCCtx.Done(); the
\* send of the context's error blocks while ErrChan is full.
RefreshSelectOf(t) ==
    /\ ppc[t] = "select"
    /\ IF Done(GRPCCtx)
       THEN /\ Len(ErrChan) < ErrChanCap
            /\ ErrChan' = Append(ErrChan, CtxCanceled)
            /\ Goto(t, "exited")
       ELSE /\ Goto(t, "refresh")
            /\ UNCHANGED ErrChan
    /\ UNCHANGED <<tokVars, fwdVars, newVars, geyVars, connVars, keyPair, authRet, GRPCCtx, BearerToken, ExpiresAt, mu, ptok, issued, seen,
                   cancelled, callVars>>

RefreshAccessTokenRequest_SendsAccessToken(rt) == [RefreshToken |-> rt.AccessToken.Value]

\* authenticator.go:85-87: the request built from the handshake's response
RefreshAccessTokenRequest(rt) == [RefreshToken |-> rt.RefreshToken.Value]

\* authenticator.go:85-94: RefreshAccessToken, then the install of its token or
\* the report of its error.  The service issues at most MaxTokens tokens and the
\* call fails only while the sleep that follows a failure ends by MaxTime.
RefreshAccessTokenOf(t) ==
    /\ ppc[t] = "refresh"
    /\ request' = RefreshAccessTokenRequest(captured[t])
    /\ \/ /\ ~Done(GRPCCtx)
          /\ issued < MaxTokens
          /\ \E life \in Lifetimes :
                /\ expiries' = Append(expiries, clock + life)
                /\ ptok' = [ptok EXCEPT ![t] = Token(issued + 1, clock + life)]
          /\ issued' = issued + 1
          /\ Goto(t, "lock")
       \/ /\ clock + RetryDelay <= MaxTime
          /\ Goto(t, "report")
          /\ UNCHANGED <<ptok, issued, expiries>>
    /\ UNCHANGED <<clock, respToken, captured, installed, fwdVars, newVars, geyVars, connVars, keyPair, authRet, GRPCCtx, BearerToken, ExpiresAt, mu, ErrChan, seen, cancelled,
                   callVars>>

\* authenticator.go:89-91: the send on ErrChan (blocks while it is full), then
\* the sleep of one minute.
RefreshReportOf(t) ==
    /\ ppc[t] = "report"
    /\ Len(ErrChan) < ErrChanCap
    /\ ErrChan' = Append(ErrChan, ErrRefresh)
    /\ clock' = clock + RetryDelay
    /\ Goto(t, "select")
    /\ UNCHANGED <<expiries, respToken, captured, request, installed, fwdVars, newVars, geyVars, connVars, keyPair, authRet, GRPCCtx, BearerToken, ExpiresAt, mu, ptok, issued, seen,
                   cancelled, callVars>>

sleepDuration_NoMargin(e, t) == e - t

\* authenticator.go:95: time.Until(resp.AccessToken.ExpiresAtUtc.AsTime()) - 15*time.Second
sleepDuration(e, t) == e - t - RefreshMargin

\* authenticator.go:95-98: the sleep until shortly before the expiry, skipped when
\* the duration is not positive.
RefreshSleepOf(t) ==
    /\ ppc[t] = "sleep"
    /\ LET d == sleepDuration(ptok[t].Seconds, clock)
       IN  clock' = (IF d > 0 THEN clock + d ELSE clock)
    /\ Goto(t, "select")
    /\ UNCHANGED <<expiries, respToken, captured, request, installed, fwdVars, newVars, geyVars, connVars, keyPair, authRet, GRPCCtx, BearerToken, ExpiresAt, mu, ErrChan, ptok, issued, seen,
                   cancelled, callVars>>

\* The goroutine of the first successful call of AuthenticateAndRefresh.
RefreshSelect == RefreshSelectOf("task")

RefreshAccessToken == RefreshAccessTokenOf("task")

RefreshReport == RefreshReportOf("task")

RefreshSleep == RefreshSleepOf("task")

\* An operation of the client reads the session's fields as the code does
\* (bundle.go:98, searcher.go:78, authenticator.go:105): without taking mu.
ReadCredential ==
    /\ ppc.main = "returned"
    /\ seen' = [ctx |-> GRPCCtx.auth, bearer |-> BearerToken, expiry |-> ExpiresAt]
    /\ UNCHANGED <<tokVars, fwdVars, newVars, geyVars, connVars, keyPair, authRet, GRPCCtx, BearerToken, ExpiresAt, mu, ErrChan, ppc, ptok, issued,
                   cancelled, callVars>>

\* The owner of the session takes an error from ErrChan.
ErrChanReceive ==
    /\ ErrChan # <<>>
    /\ ErrChan' = Tail(ErrChan)
    /\ UNCHANGED <<tokVars, fwdVars, newVars, geyVars, connVars, keyPair, authRet, GRPCCtx, BearerToken, ExpiresAt, mu, ppc, ptok, issued, seen,
                   cancelled, callVars>>

\* The context given to NewAuthenticationService is cancelled.
CancelOwner ==
    /\ "owner" \notin cancelled
    /\ cancelled' = cancelled \cup {"owner"}
    /\ UNCHANGED <<tokVars, fwdVars, newVars, geyVars, connVars, authVars, callVars>>

\* NewAuthenticationService(ctx, conn, keyPair) with a cancellable ctx
\* (authenticator.go:29-41), AuthenticateAndRefresh about to be called.
AuthInit ==
    /\ ConnIdle
    /\ FwdIdle
    /\ NewIdle
    /\ GeyIdle
    /\ keyPair = TRUE
    /\ TokIdle(FALSE)
    /\ GRPCCtx = WithCancel("owner")
    /\ BearerToken = 0
    /\ ExpiresAt = 0
    /\ mu = "free"
    /\ authRet = NotReturned
    /\ ErrChan = <<>>
    /\ ppc = [main |-> "challenge", task |-> "off", task2 |-> "off"]
    /\ ptok = [main |-> NoToken, task |-> NoToken, task2 |-> NoToken]
    /\ issued = 0
    /\ seen = [ctx |-> <<>>, bearer |-> 0, expiry |-> 0]
    /\ cancelled = {}
    /\ transactions = <<>>
    /\ otherBundles = FALSE
    /\ pc = "done"
    /\ i = 0
    /\ elapsed = 0
    /\ bundleResult = NoResult
    /\ bundleId = "none"
    /\ ret = [resp |-> "nil", sigs |-> <<>>, err |-> NoErr]
    /\ statuses = <<>>
    /\ nSend = 0 /\ nRecv = 0 /\ nRecvErr = 0 /\ nPoll = 0 /\ waited = 0
    /\ stream = "idle"
    /\ ledger = [s \in SigIds |-> "nil"]

AuthNext ==
    \/ GenerateAuthChallenge
    \/ GenerateAuthTokens
    \/ \E p \in {"main", "task"} : updateAuthorizationMetadata(p)
    \/ LaunchRefresh
    \/ WaitForBearer
    \/ RefreshSelect
    \/ RefreshAccessToken
    \/ RefreshReport
    \/ RefreshSleep
    \/ ReadCredential
    \/ ErrChanReceive
    \/ CancelOwner

\* authenticator.go:44: AuthenticateAndRefresh is called again on the session
\* once the previous call has returned.  The model follows two goroutines, so
\* a further call starts only while the second one has not been launched.
CallAgain ==
    /\ ppc.main \in {"returned", "failed"}
    /\ ppc.task2 = "off"
    /\ Goto("main", "challenge")
    /\ authRet' = NotReturned
    /\ UNCHANGED <<tokVars, fwdVars, newVars, geyVars, connVars, keyPair, GRPCCtx, BearerToken, ExpiresAt, mu, ErrChan, ptok, issued, seen,
                   cancelled, callVars>>

AuthSpec == AuthInit /\ [][AuthNext]_vars

\* The steps of the caller of AuthenticateAndRefresh and those of its goroutine.
AuthMain ==
    \/ GenerateAuthChallenge
    \/ GenerateAuthTokens
    \/ updateAuthorizationMetadata("main")
    \/ LaunchRefresh
    \/ WaitForBearer

RefreshTask ==
    \/ RefreshSelect
    \/ RefreshAccessToken
    \/ updateAuthorizationMetadata("task")
    \/ RefreshReport
    \/ RefreshSleep

\* The Go scheduler runs every goroutine that can take a step; a step that waits
\* (the send on a full ErrChan, Lock on a held mutex) is not enabled.  Nothing
\* obliges anyone to receive from ErrChan or to cancel a context.
AuthFairSpec == AuthSpec /\ WF_vars(AuthMain) /\ WF_vars(RefreshTask)

(***************************************************************************)
(* Claims about the authentication session.                                *)
(***************************************************************************)
\* The goroutine of a second successful call on the same session.
RefreshTask2 ==
    \/ RefreshSelectOf("task2")
    \/ RefreshAccessTokenOf("task2")
    \/ updateAuthorizationMetadata("task2")
    \/ RefreshReportOf("task2")
    \/ RefreshSleepOf("task2")

\* A session whose owner calls AuthenticateAndRefresh more than once.
ReauthNext ==
    \/ AuthMain
    \/ RefreshTask
    \/ RefreshTask2
    \/ CallAgain
    \/ ErrChanReceive
    \/ CancelOwner

ReauthSpec == AuthInit /\ [][ReauthNext]_vars

Alive(t) == ppc[t] \notin {"off", "exited"}

\* C38: whatever number of times AuthenticateAndRefresh is called on a session,
\* at most one refresh goroutine of that session is alive.
C38_OneRefreshTask == ~(Alive("task") /\ Alive("task2"))

\* C9: whatever a read of the session's credential sees belongs to one token: the
\* bearer, the bearer in the context's authorization metadata and the expiry are
\* those of the same issued token (or all three are still unset).
C9_NoMixedCredential ==
    /\ seen.ctx = (IF seen.bearer = 0 THEN <<>> ELSE <<"Bearer ", seen.bearer>>)
    /\ seen.expiry = (IF seen.bearer = 0 THEN 0 ELSE expiries[seen.bearer])

\* C10: once the context given at session creation is cancelled, the refresh
\* goroutine, at its select, does not go on to another refresh: its only step is
\* to push the context's error onto ErrChan and exit.
C10_OwnerCancelStopsRefresh ==
    [][("owner" \in cancelled /\ ppc.task = "select" /\ ppc'.task # "select")
        => (ppc'.task = "exited" /\ ErrChan' = Append(ErrChan, CtxCanceled))]_vars

\* C11: every failed RefreshAccessToken call is followed, in the end, by another
\* refresh call of the goroutine, whether or not ErrChan is read.
C11_FailedRefreshIsRetried == (ppc.task = "report") ~> (ppc.task = "refresh")

\* C12: a call that failed at the challenge or at the token exchange returned
\* that step's error, installed nothing (context, bearer and expiry are those of
\* the construction, the mutex is free, no token was taken), launched no refresh
\* goroutine, and does nothing more: no step is retried.
C12_FailedHandshakeInstallsNothing ==
    /\ [](authRet \in {ErrChallenge, ErrSign, ErrTokens} =>
            /\ ppc = [main |-> "failed", task |-> "off", task2 |-> "off"]
            /\ GRPCCtx = WithCancel("owner")
            /\ BearerToken = 0 /\ ExpiresAt = 0
            /\ mu = "free"
            /\ ptok.main = NoToken /\ issued = 0)
    /\ [](ppc.main = "failed" => authRet \in {ErrChallenge, ErrSign, ErrTokens})
    /\ [][ppc.main = "failed" => UNCHANGED <<ppc, authRet, issued>>]_vars

C12_Witness == authRet = ErrTokens /\ ppc.main = "failed"

\* C13: the call has returned nil only with a non-empty bearer installed; the
\* refresh goroutine exists only after the handshake's access token was installed
\* in full, and at its launch the credential is that token.
C13_InstallBeforeLaunchAndReturn ==
    /\ authRet = NoErr =>
          /\ ppc.main = "returned"
          /\ BearerToken # 0 /\ GRPCCtx.auth # <<>>
    /\ ppc.main = "returned" => authRet = NoErr
    /\ ppc.main = "launch" =>
          /\ ppc.task = "off" /\ mu = "free"
          /\ BearerToken = ptok.main.Value /\ BearerToken # 0
          /\ GRPCCtx = NewOutgoingContext(ptok.main.Value)
          /\ ExpiresAt = ptok.main.Seconds
    /\ ppc.task # "off" => (ppc.main \in {"wait", "returned"} /\ BearerToken # 0)

C13_Witness ==
    /\ authRet = NoErr /\ ppc.main = "returned"
    /\ ppc.task = "refresh" /\ BearerToken = respToken.AccessToken.Value

\* C27: every RefreshAccessToken request, after a success as after a failure,
\* carries the value of the refresh token the handshake's response brought, and
\* that response, once received, is never replaced.
C27_SameRefreshToken ==
    /\ [](request # NoRequest =>
            /\ respToken.RefreshToken.Value \in RefreshValues
            /\ request.RefreshToken = respToken.RefreshToken.Value)
    /\ [][respToken # NoResp => respToken' = respToken]_vars

\* the third token is about to be installed: the last call followed a success,
\* an earlier one a failure whose report is still in ErrChan
C27_Witness ==
    /\ request.RefreshToken = 102 /\ respToken.RefreshToken.Value = 102
    /\ issued = 3 /\ ppc.task = "lock"
    /\ ErrChan = <<ErrRefresh>>

C29_NextRefreshTime ==
    [][/\ (ppc.task = "sleep" /\ ppc'.task # "sleep") =>
            /\ ExpiresAt = ptok.task.Seconds
            /\ clock' = (IF ExpiresAt - 15 > clock THEN ExpiresAt - 15 ELSE clock)
            /\ ppc'.task = "select"
       /\ (ppc.task = "select" /\ ppc'.task = "refresh") => clock' = clock]_vars

\* the second token (expiry 40, installed at 0) was slept on until 25; the third
\* (expiry 35, installed at 25) was not slept on
C29_Witness ==
    /\ ppc.task = "select" /\ clock = 25
    /\ expiries = <<40, 40, 35>> /\ ptok.task = Token(3, 35)

(***************************************************************************)
(* The connection manager: CreateGRPCConnection and its health goroutine.  *)
(* An endpoint string is a sequence of tokens: runs of letters ("http",    *)
(* "https", "host"), a run of digits ("443"), ":", "/" and "%" (a percent  *)
(* sign that starts no valid escape).                                      *)
(***************************************************************************)
IsLetters(t) == t \in {"http", "https", "host"}
IsDigits(t) == t \in {"443", "80"}

\* strings.Index and strings.LastIndex of one token (0: absent)
Index(str, t) ==
    IF \E k \in 1..Len(str) : str[k] = t
    THEN CHOOSE k \in 1..Len(str) : str[k] = t /\ \A j \in 1..(k - 1) : str[j] # t
    ELSE 0

LastIndex(str, t) ==
    IF \E k \in 1..Len(str) : str[k] = t
    THEN CHOOSE k \in 1..Len(str) : str[k] = t /\ \A j \in (k + 1)..Len(str) : str[j] # t
    ELSE 0

\* net/url getScheme: letters, then letters and digits, up to a colon; a colon
\* in front is an error, anything else in the way means there is no scheme.
getScheme(rawURL) ==
    LET n == Len(rawURL)
        other == {k \in 1..n : ~(IsLetters(rawURL[k]) \/ IsDigits(rawURL[k]))}
        stop == IF other = {} THEN 0 ELSE CHOOSE k \in other : \A j \in other : k <= j
        none == [scheme |-> <<>>, rest |-> rawURL, err |-> FALSE]
    IN  IF n = 0 THEN none
        ELSE IF rawURL[1] = ":" THEN [scheme |-> <<>>, rest |-> <<>>, err |-> TRUE]
        ELSE IF IsDigits(rawURL[1]) THEN none
        ELSE IF stop <= 1 \/ rawURL[stop] # ":" THEN none
        ELSE [scheme |-> SubSeq(rawURL, 1, stop - 1),
              rest |-> SubSeq(rawURL, stop + 1, n), err |-> FALSE]

\* net/url validOptionalPort: empty, or a colon and digits only
validOptionalPort(port) ==
    \/ port = <<>>
    \/ port[1] = ":" /\ \A k \in 2..Len(port) : IsDigits(port[k])

\* net/url parseHost: the port after the last colon must be valid and the host
\* must unescape.
parseHostFails(host) ==
    \/ LastIndex(host, ":") # 0
         /\ ~validOptionalPort(SubSeq(host, LastIndex(host, ":"), Len(host)))
    \/ Index(host, "%") # 0

\* net/url Parse, for a string without '#', '?', '@' and '['.
Parse(rawURL) ==
    LET g == getScheme(rawURL)
        rest == g.rest
        fail == [err |-> TRUE, Scheme |-> <<>>, Host |-> <<>>]
        hasAuthority ==
            /\ Len(rest) >= 2 /\ rest[1] = "/" /\ rest[2] = "/"
            /\ (g.scheme # <<>> \/ ~(Len(rest) >= 3 /\ rest[3] = "/"))
        afterSlashes == SubSeq(rest, 3, Len(rest))
        cut == Index(afterSlashes, "/")
        authority == IF cut = 0 THEN afterSlashes ELSE SubSeq(afterSlashes, 1, cut - 1)
        path == IF ~hasAuthority THEN rest
                ELSE IF cut = 0 THEN <<>>
                ELSE SubSeq(afterSlashes, cut, Len(afterSlashes))
        segment == IF Index(rest, "/") = 0 THEN rest ELSE SubSeq(rest, 1, Index(rest, "/") - 1)
    IN  IF g.err THEN fail
        ELSE IF rest = <<>> \/ rest[1] # "/"
        THEN IF g.scheme # <<>>
             THEN [err |-> FALSE, Scheme |-> g.scheme, Host |-> <<>>]      \* opaque
             ELSE IF Index(segment, ":") # 0 \/ Index(rest, "%") # 0 THEN fail
             ELSE [err |-> FALSE, Scheme |-> <<>>, Host |-> <<>>]
        ELSE IF hasAuthority /\ parseHostFails(authority) THEN fail
        ELSE IF Index(path, "%") # 0 THEN fail
        ELSE [err |-> FALSE, Scheme |-> g.scheme,
              Host |-> IF hasAuthority THEN authority ELSE <<>>]

\* URL.Hostname and URL.Port: the host without, and the digits of, a valid port
Hostname(u) ==
    LET colon == LastIndex(u.Host, ":")
    IN  IF colon # 0 /\ validOptionalPort(SubSeq(u.Host, colon, Len(u.Host)))
        THEN SubSeq(u.Host, 1, colon - 1)
        ELSE u.Host

Port(u) ==
    LET colon == LastIndex(u.Host, ":")
    IN  IF colon # 0 /\ validOptionalPort(SubSeq(u.Host, colon, Len(u.Host)))
        THEN SubSeq(u.Host, colon + 1, Len(u.Host))
        ELSE <<>>

\* The endpoints tried: empty; three that do not parse (colon in front, a port
\* that is no number, a bad escape in the host); five that parse without a host
\* (a bare name, name:port, no authority, a port alone, a single slash); four
\* with a host.
Endpoints ==
    { <<>>,
      <<":", "/", "/", "host">>,
      <<"https", ":", "/", "/", "host", ":", "host">>,
      <<"https", ":", "/", "/", "%">>,
      <<"host">>,
      <<"host", ":", "443">>,
      <<"https", ":", "/", "/">>,
      <<"https", ":", "/", "/", ":", "443">>,
      <<"https", ":", "/", "host">>,
      <<"https", ":", "/", "/", "host">>,
      <<"http", ":", "/", "/", "host">>,
      <<"http", ":", "/", "/", "host", ":", "443", "/">>,
      <<"/", "/", "host">> }

ErrAddrRequired == [type |-> "error", Message |-> <<"gRPC address is required">>]
ErrParseAddr == [type |-> "error", Message |-> <<"could not parse grpcAddr: ", "url">>]
ErrNoHost == [type |-> "error", Message |-> <<"please provide URL format endpoint">>]
ErrDial == [type |-> "error", Message |-> <<"could not create gRPC connection: ", "dial">>]
ErrRedial == [type |-> "error", Message |-> <<"dial">>]
ErrClientConnClosing == [type |-> "error", Message |-> <<"grpc: the client connection is closing">>]

\* tx_extract.go:65-85: the scheme decides the credentials and the default port.
insecureConnection(u) == u.Scheme = <<"http">>

Address_SwappedDefaults(u) ==
    Hostname(u) \o <<":">> \o
        (IF Port(u) # <<>> THEN Port(u)
         ELSE IF insecureConnection(u) THEN <<"443">> ELSE <<"80">>)

Address(u) ==
    Hostname(u) \o <<":">> \o
        (IF Port(u) # <<>> THEN Port(u)
         ELSE IF insecureConnection(u) THEN <<"80">> ELSE <<"443">>)

\* tx_extract.go:88-96: the caller's options (none here), the transport
\* credentials and the keepalive parameters.
DialOpts(u) == <<IF insecureConnection(u) THEN "insecure" ELSE "tls", "kacp">>

\* tx_extract.go:55-83: the three checks of the endpoint, in the code's order.
EndpointError_NoHostCheck(addr) ==
    IF addr = <<>> THEN ErrAddrRequired
    ELSE IF Parse(addr).err THEN ErrParseAddr
    ELSE NoErr

EndpointError(addr) ==
    IF addr = <<>> THEN ErrAddrRequired
    ELSE IF Parse(addr).err THEN ErrParseAddr
    ELSE IF Hostname(Parse(addr)) = <<>> THEN ErrNoHost
    ELSE NoErr

\* grpc.DialContext(ctx, address, opts...): a fresh channel, idle at first.
NewChan == [address |-> Address(Parse(grpcAddr)), opts |-> DialOpts(Parse(grpcAddr)),
            state |-> "Idle", closedBy |-> "none"]

\* ClientConn.Close
Closed(ch, who) == [ch EXCEPT !.state = "Shutdown", !.closedBy = who]

\* the context handed to CreateGRPCConnection
ManagerCtx == WithCancel("caller")

\* tx_extract.go:126: the ceiling of the retries counter
RetryCeiling == 5
\* longest run of non-Ready observations followed, most channels dialled
MaxRun == 12
MaxChans == 3

\* tx_extract.go:126: the else branch of `if retries < 5`
ceilingReached_Inverted(r) == r < RetryCeiling

ceilingReached_OneEarly(r) == ~(r < RetryCeiling - 1)

ceilingReached(r) == ~(r < RetryCeiling)

resetOnReady_Kept(r) == r

\* tx_extract.go:117: retries = 0 on an observation of Ready
resetOnReady(r) == 0

\* tx_extract.go:49-105: the checks, the first DialContext and the go statement.
CreateGRPCConnection ==
    /\ mpc = "call"
    /\ IF EndpointError(grpcAddr) # NoErr
       THEN /\ connRet' = [conn |-> 0, err |-> EndpointError(grpcAddr)]
            /\ mpc' = "done"
            /\ UNCHANGED <<chans, conn, hpc>>
       ELSE \E ok \in BOOLEAN :
              IF ok
              THEN /\ chans' = Append(chans, NewChan)
                   /\ conn' = Len(chans) + 1
                   /\ hpc' = "select"
                   /\ mpc' = "return"
                   /\ UNCHANGED connRet
              ELSE /\ connRet' = [conn |-> 0, err |-> ErrDial]
                   /\ mpc' = "done"
                   /\ UNCHANGED <<chans, conn, hpc>>
    /\ UNCHANGED <<grpcAddr, chErr, retries, state, herr, recvd, run, replaced,
                   authVars, cancelled, callVars, fwdVars, tokVars, newVars, geyVars>>

\* tx_extract.go:154: return conn, nil -- a read of the variable the goroutine
\* assigns to.
ReturnConn ==
    /\ mpc = "return"
    /\ connRet' = [conn |-> conn, err |-> NoErr]
    /\ mpc' = "done"
    /\ UNCHANGED <<grpcAddr, chErr, chans, conn, hpc, retries, state, herr, recvd, run,
                   replaced, authVars, cancelled, callVars, fwdVars, tokVars, newVars, geyVars>>

\* tx_extract.go:131-136 and 139-143: DialContext with the same address and
\* options; its result is assigned to conn, nil included, and its error goes
\* to chErr before retries is reset.
Redial(cs) ==
    /\ Len(cs) < MaxChans
    /\ \E ok \in BOOLEAN :
         IF ok
         THEN /\ chans' = Append(cs, NewChan)
              /\ conn' = Len(cs) + 1
              /\ retries' = 0
              /\ hpc' = "wait"
              /\ UNCHANGED herr
         ELSE /\ chans' = cs
              /\ conn' = 0
              /\ herr' = ErrRedial
              /\ hpc' = "send"
              /\ UNCHANGED retries

\* tx_extract.go:107-144: one pass of the loop from the select to the wait for
\* a state change: the close on cancellation, or the observation of the state
\* with the sleep and what follows it.
HealthSelect ==
    /\ hpc = "select"
    /\ IF Done(ManagerCtx)
       THEN /\ IF chans[conn].state = "Shutdown"
               THEN herr' = ErrClientConnClosing /\ hpc' = "sendClose" /\ UNCHANGED chans
               ELSE /\ chans' = [chans EXCEPT ![conn] = Closed(@, "manager")]
                    /\ hpc' = "exited"
                    /\ UNCHANGED herr
            /\ UNCHANGED <<conn, retries, state, run, replaced>>
       ELSE LET observed == chans[conn].state IN
            IF observed = "Ready"
            THEN /\ retries' = resetOnReady(retries)
                 /\ run' = 0 /\ replaced' = 0
                 /\ UNCHANGED <<chans, conn, hpc, state, herr>>
            ELSE IF observed \in {"TransientFailure", "Connecting", "Idle"}
            THEN /\ run < MaxRun
                 /\ run' = run + 1
                 /\ state' = observed
                 /\ IF ~ceilingReached(retries)
                    THEN /\ retries' = retries + 1
                         /\ hpc' = "wait"
                         /\ UNCHANGED <<chans, conn, herr, replaced>>
                    ELSE /\ replaced' = replaced + 1
                         /\ Redial([chans EXCEPT ![conn] = Closed(@, "manager")])
            ELSE /\ run' = 0 /\ replaced' = 0
                 /\ state' = observed
                 /\ Redial(chans)
    /\ UNCHANGED <<grpcAddr, chErr, connRet, mpc, recvd, authVars, cancelled, callVars, fwdVars, tokVars, newVars, geyVars>>

\* tx_extract.go:147-149: conn.WaitForStateChange(ctx, state); on a nil conn it
\* dereferences nil, and the panic of a goroutine ends the process.
HealthWait ==
    /\ hpc = "wait"
    /\ IF conn = 0
       THEN hpc' = "panicked" /\ UNCHANGED state
       ELSE /\ chans[conn].state # state \/ Done(ManagerCtx)
            /\ hpc' = "select"
            /\ state' = "none"
    /\ UNCHANGED <<grpcAddr, chErr, chans, conn, connRet, mpc, retries, herr, recvd, run,
                   replaced, authVars, cancelled, callVars, fwdVars, tokVars, newVars, geyVars>>

\* tx_extract.go:111, 134, 141: chErr <- err completes when a consumer receives:
\* never on a nil channel, and on an unbuffered one only with a receiver there.
ChErrReceive ==
    /\ hpc \in {"send", "sendClose"}
    /\ chErr = "unbuffered"
    /\ recvd' = herr
    /\ herr' = NoErr
    /\ IF hpc = "send"
       THEN retries' = 0 /\ hpc' = "wait"
       ELSE hpc' = "exited" /\ UNCHANGED retries
    /\ UNCHANGED <<grpcAddr, chErr, chans, conn, connRet, mpc, state, run, replaced,
                   authVars, cancelled, callVars, fwdVars, tokVars, newVars, geyVars>>

\* The transport moves an open channel to another state (what GetState and
\* WaitForStateChange observe).
ChannelEvent ==
    /\ hpc # "panicked"
    /\ \E k \in 1..Len(chans), st \in {"Idle", "Connecting", "Ready", "TransientFailure"} :
         /\ chans[k].state \notin {"Shutdown", st}
         /\ chans' = [chans EXCEPT ![k].state = st]
    /\ UNCHANGED <<grpcAddr, chErr, conn, connRet, mpc, hpc, retries, state, herr, recvd, run,
                   replaced, authVars, cancelled, callVars, fwdVars, tokVars, newVars, geyVars>>

\* The caller closes the channel it was given (the clients export it as
\* GRPCConn, types.go:16).
CallerClose ==
    /\ hpc # "panicked"
    /\ mpc = "done" /\ connRet.conn # 0
    /\ chans[connRet.conn].state # "Shutdown"
    /\ chans' = [chans EXCEPT ![connRet.conn] = Closed(@, "caller")]
    /\ UNCHANGED <<grpcAddr, chErr, conn, connRet, mpc, hpc, retries, state, herr, recvd, run,
                   replaced, authVars, cancelled, callVars, fwdVars, tokVars, newVars, geyVars>>

\* The context handed to CreateGRPCConnection is cancelled.
CancelManager ==
    /\ hpc \notin {"off", "exited", "panicked"}
    /\ "caller" \notin cancelled
    /\ cancelled' = cancelled \cup {"caller"}
    /\ UNCHANGED <<tokVars, fwdVars, newVars, geyVars, connVars, authVars, callVars>>

\* A call of CreateGRPCConnection(ctx, chErr, grpcAddr) as the constructors make
\* it: chErr is make(chan error) (searcher.go:28, validator.go:24) or nil
\* (NewClient of the Geyser client).
ConnInit ==
    /\ FwdIdle
    /\ NewIdle
    /\ GeyIdle
    /\ grpcAddr \in Endpoints
    /\ chErr \in {"unbuffered", "nil"}
    /\ chans = <<>>
    /\ conn = 0
    /\ connRet = [conn |-> 0, err |-> NotReturned]
    /\ mpc = "call"
    /\ hpc = "off"
    /\ retries = 0
    /\ state = "none"
    /\ herr = NoErr
    /\ recvd = NoErr
    /\ run = 0
    /\ replaced = 0
    /\ keyPair = FALSE
    /\ TokIdle(FALSE)
    /\ GRPCCtx = WithCancel("caller")
    /\ BearerToken = 0
    /\ ExpiresAt = 0
    /\ mu = "free"
    /\ authRet = NotReturned
    /\ ErrChan = <<>>
    /\ ppc = [main |-> "off", task |-> "off", task2 |-> "off"]
    /\ ptok = [main |-> NoToken, task |-> NoToken, task2 |-> NoToken]
    /\ issued = 0
    /\ seen = [ctx |-> <<>>, bearer |-> 0, expiry |-> 0]
    /\ cancelled = {}
    /\ transactions = <<>>
    /\ otherBundles = FALSE
    /\ pc = "done"
    /\ i = 0
    /\ elapsed = 0
    /\ bundleResult = NoResult
    /\ bundleId = "none"
    /\ ret = [resp |-> "nil", sigs |-> <<>>, err |-> NoErr]
    /\ statuses = <<>>
    /\ nSend = 0 /\ nRecv = 0 /\ nRecvErr = 0 /\ nPoll = 0 /\ waited = 0
    /\ stream = "idle"
    /\ ledger = [s \in SigIds |-> "nil"]

ConnNext ==
    \/ CreateGRPCConnection
    \/ ReturnConn
    \/ HealthSelect
    \/ HealthWait
    \/ ChErrReceive
    \/ ChannelEvent
    \/ CallerClose
    \/ CancelManager

ConnSpec == ConnInit /\ [][ConnNext]_vars

\* The Go scheduler runs the call and the goroutine whenever they can take a
\* step; nothing obliges the transport to change state, the caller to close or
\* to cancel, or anyone to receive from chErr.
ConnFairSpec ==
    ConnSpec /\ WF_vars(CreateGRPCConnection \/ ReturnConn)
             /\ WF_vars(HealthSelect) /\ WF_vars(HealthWait)

(***************************************************************************)
(* Claims about the connection manager.                                    *)
(***************************************************************************)
\* C14: for an endpoint that is empty, does not parse as a URL or has no host,
\* CreateGRPCConnection returns the error of that check and no channel; nothing
\* is ever dialled and the health goroutine is never started.
C14_BadEndpointOpensNothing ==
    (grpcAddr = <<>> \/ Parse(grpcAddr).err \/ Hostname(Parse(grpcAddr)) = <<>>) =>
        /\ chans = <<>> /\ conn = 0 /\ hpc = "off"
        /\ mpc \in {"call", "done"}
        /\ mpc = "done" =>
             /\ connRet.conn = 0
             /\ connRet.err = (IF grpcAddr = <<>> THEN ErrAddrRequired
                               ELSE IF Parse(grpcAddr).err THEN ErrParseAddr
                               ELSE ErrNoHost)

C14_Witness ==
    /\ grpcAddr = <<"host", ":", "443">>
    /\ mpc = "done" /\ connRet = [conn |-> 0, err |-> ErrNoHost]

\* C15: during a run of fewer than five non-Ready observations since the last
\* Ready one, nothing was force-replaced: every observation of the run did the
\* sleep, ResetConnectBackoff and retries++ (retries counts them), and the
\* goroutine has not closed the channel it monitors (unless it ended on
\* cancellation).
C15_ShortRunNeverReplaces ==
    (run > 0 /\ run < RetryCeiling) =>
        /\ replaced = 0
        /\ retries = run
        /\ conn # 0
        /\ chans[conn].closedBy = "manager" => hpc = "exited"

C15_Witness ==
    /\ run = RetryCeiling - 1 /\ retries = RetryCeiling - 1
    /\ hpc = "wait" /\ state = "TransientFailure"
    /\ chans[conn].state = "Ready" /\ Len(chans) = 1

\* C16 as stated: a run of five or more non-Ready observations has seen exactly
\* one forced replacement.
C16_LongRunReplacesOnce == run >= RetryCeiling => replaced = 1

\* C16 amended: a run of n non-Ready observations has seen one forced replacement
\* for every six of them (none up to n = 5, one from n = 6 to n = 11), each a
\* Close of the monitored channel followed by DialContext with the same address
\* and options.
C16_ReplacesEverySixth ==
    /\ replaced = run \div (RetryCeiling + 1)
    /\ \A k \in 1..Len(chans) :
          /\ chans[k].address = chans[1].address /\ chans[k].opts = chans[1].opts
          /\ (k < Len(chans) /\ chans[k].closedBy # "caller") => chans[k].closedBy = "manager"
    /\ replaced <= Cardinality({k \in 1..Len(chans) : chans[k].closedBy = "manager"})

C16_Witness ==
    /\ run = RetryCeiling + 1 /\ replaced = 1
    /\ hpc = "wait" /\ conn = 2 /\ retries = 0
    /\ chans[1].closedBy = "manager" /\ chans[2].state # "Shutdown"
    /\ chans[2].address = <<"host", ":", "80">>

\* C17: while the manager's context is not cancelled, the channel returned to the
\* caller is not closed (unless the caller closed it).
C17_CallerHandleStaysOpen ==
    (mpc = "done" /\ connRet.conn # 0 /\ ~Done(ManagerCtx)
        /\ chans[connRet.conn].closedBy # "caller")
    => chans[connRet.conn].state # "Shutdown"

\* C18: once the manager's context is cancelled, the health goroutine ends, with
\* the channel it monitors closed.
C18_CancelEndsHealthTask ==
    ("caller" \in cancelled /\ hpc # "off")
        ~> (hpc = "exited" /\ chans[conn].state = "Shutdown")

\* C19: a send of the health goroutine on chErr always completes.
C19_ReportNeverBlocks == (hpc \in {"send", "sendClose"}) ~> (hpc \notin {"send", "sendClose"})

\* C20: the health goroutine never uses a nil conn and never ends the process.
C20_NeverOperatesOnNil ==
    /\ hpc # "panicked"
    /\ hpc \in {"select", "wait"} => conn # 0

\* C24: every channel dialled for an endpoint with a host has the address
\* host:port, the port being the one written in the endpoint, else 80 for
\* http and 443 otherwise, and plaintext credentials exactly for http.
C24_AddressAndCredentials ==
    chans # <<>> =>
        LET expected ==
              CASE grpcAddr = <<"https", ":", "/", "/", "host">> ->
                      [address |-> <<"host", ":", "443">>, creds |-> "tls"]
                [] grpcAddr = <<"http", ":", "/", "/", "host">> ->
                      [address |-> <<"host", ":", "80">>, creds |-> "insecure"]
                [] grpcAddr = <<"http", ":", "/", "/", "host", ":", "443", "/">> ->
                      [address |-> <<"host", ":", "443">>, creds |-> "insecure"]
                [] grpcAddr = <<"/", "/", "host">> ->
                      [address |-> <<"host", ":", "443">>, creds |-> "tls"]
                [] OTHER -> [address |-> <<>>, creds |-> "none"]
        IN  \A k \in 1..Len(chans) :
               /\ chans[k].address = expected.address
               /\ chans[k].opts[1] = expected.creds

C24_Witness ==
    /\ grpcAddr = <<"http", ":", "/", "/", "host">>
    /\ Len(chans) = 2
    /\ chans[2].address = <<"host", ":", "80">> /\ chans[2].opts = <<"insecure", "kacp">>

\* C25: the retry counter never exceeds the number of non-Ready observations made
\* since the last observation of Ready (which set it to zero), and a forced
\* replacement has happened only in a run of more than ceiling such observations.
\* (While the report of a failed re-open is being sent the reset of line 143 is
\* still to come.)
C25_ReadyResetsCounter ==
    /\ hpc # "send" => retries <= run
    /\ replaced > 0 => run > RetryCeiling

\* a Ready observation after a forced replacement: both counters are at zero again
C25_Witness ==
    /\ Len(chans) = 2 /\ chans[1].closedBy = "manager"
    /\ conn = 2 /\ chans[2].state = "Ready"
    /\ hpc = "select" /\ run = 0 /\ retries = 0 /\ replaced = 0
    /\ cancelled = {}

\* C26: the pass of the loop that observes Shutdown with the context live ends
\* with a fresh open channel of the same address and options in conn, retries at
\* zero, and the goroutine waiting for that channel's state to change.
C26_ShutdownReopens ==
    [][(hpc = "select" /\ ~Done(ManagerCtx) /\ chans[conn].state = "Shutdown"
          /\ hpc' # "select")
        => /\ Len(chans') = Len(chans) + 1
           /\ conn' = Len(chans')
           /\ chans'[conn'].address = chans[conn].address
           /\ chans'[conn'].opts = chans[conn].opts
           /\ chans'[conn'].state # "Shutdown"
           /\ retries' = 0
           /\ hpc' = "wait"]_vars

(***************************************************************************)
(* The subscription forwarding goroutines of the Validator and the Relayer *)
(* (validator.go:67-99, 115-148 and the three On... methods of the         *)
(* Relayer): five copies of one loop, three of which also select on the    *)
(* session's context; and the listen goroutine of a Geyser StreamClient,   *)
(* the same loop with a buffered error channel.                            *)
(***************************************************************************)
\* most sub.Recv() calls that return in a run
MaxReads == 2

Forwarders == {"OnPacketSubscription", "OnBundleSubscription", "OnSubscribeAccountsOfInterest",
               "OnSubscribeProgramsOfInterest", "OnStartExpiringPacketStream", "listen"}

\* part_003:70: ErrCh: make(chan error, 10); chErr of the five methods is
\* make(chan error)
ErrChCap == 10

buffered(k) == k = "listen"

\* the context the stream was opened with: the session's for the five methods
\* (validator.go:45-47), the StreamClient's own for listen (part_003:52)
StreamCtx == IF fkind = "listen" THEN WithCancel("caller") ELSE GRPCCtx

\* the methods whose select has `case <-AuthenticationService.GRPCCtx.Done()`
selectsSession(k) ==
    k \in {"OnBundleSubscription", "OnSubscribeAccountsOfInterest", "OnStartExpiringPacketStream"}

\* the ctx argument of the method
FwdCtx == WithCancel("caller")

\* the goroutine's cancellation signal has fired
Fired == Done(FwdCtx) \/ (selectsSession(fkind) /\ Done(GRPCCtx))

\* validator.go:81-85: the select with its default case.
FwdSelect ==
    /\ fpc = "select"
    /\ fpc' = (IF Fired THEN "exited" ELSE "recv")
    /\ UNCHANGED <<fkind, fval, consumer, got, nRead, ErrCh, newVars, geyVars, connVars, authVars, cancelled, callVars, tokVars>>

\* validator.go:86-90: sub.Recv() returns a message or an error; it waits for
\* the stream, not for ctx.
FwdRecv ==
    /\ fpc = "recv"
    /\ nRead < MaxReads
    /\ nRead' = nRead + 1
    /\ \E k \in {"resp", "err"} :
         /\ Done(StreamCtx) => k = "err"
         /\ fval' = [kind |-> k, late |-> Fired, seq |-> nRead + 1]
         /\ fpc' = (IF k = "err" THEN "sendErr" ELSE "send")
    /\ UNCHANGED <<fkind, consumer, got, ErrCh, newVars, geyVars, connVars, authVars, cancelled, callVars, tokVars>>

\* what the reader takes from a channel: the value and the channel it came on
Received(v, ch) == [kind |-> v.kind, late |-> v.late, seq |-> v.seq, ch |-> ch]

afterErrSend_FallsThrough == "send"

\* validator.go:90: continue (part_003:88-92: the else of listen)
afterErrSend == "select"

\* validator.go:88-92: chErr <- err; continue, or chPackets <- resp: a send on an
\* unbuffered channel, which completes when the reader receives.  part_003:88:
\* s.ErrCh <- err completes when the buffer has room.
FwdDeliver ==
    /\ fpc \in {"sendErr", "send"}
    /\ IF fpc = "sendErr" /\ buffered(fkind)
       THEN /\ Len(ErrCh) < ErrChCap
            /\ ErrCh' = Append(ErrCh, fval)
            /\ UNCHANGED got
       ELSE /\ consumer = "reading"
            /\ got' = Append(got, Received(fval, IF fpc = "sendErr" THEN "errors" ELSE "updates"))
            /\ UNCHANGED ErrCh
    /\ fpc' = (IF fpc = "sendErr" THEN afterErrSend ELSE "select")
    /\ fval' = (IF fpc' = "select" THEN NoItem ELSE fval)
    /\ UNCHANGED <<fkind, consumer, nRead, newVars, geyVars, connVars, authVars, cancelled, callVars, tokVars>>

\* The reader of a StreamClient takes the oldest error from ErrCh.
FwdErrChReceive ==
    /\ consumer = "reading"
    /\ ErrCh # <<>>
    /\ got' = Append(got, Received(Head(ErrCh), "errors"))
    /\ ErrCh' = Tail(ErrCh)
    /\ UNCHANGED <<fkind, fpc, fval, consumer, nRead, newVars, geyVars, connVars, authVars, cancelled, callVars, tokVars>>

\* The reader of the returned channels stops receiving.
ConsumerStop ==
    /\ consumer = "reading"
    /\ consumer' = "stopped"
    /\ UNCHANGED <<fkind, fpc, fval, got, nRead, ErrCh, newVars, geyVars, connVars, authVars, cancelled, callVars, tokVars>>

\* ctx, or the context of the session, is cancelled.
FwdCancel ==
    /\ \E r \in {"caller", "owner"} :
         /\ r \notin cancelled
         /\ cancelled' = cancelled \cup {r}
    /\ UNCHANGED <<tokVars, fwdVars, newVars, geyVars, connVars, authVars, callVars>>

\* One of the five methods has subscribed and started its goroutine; the
\* session's context is the one given to NewAuthenticationService or the one of
\* an installed credential.
FwdInit ==
    /\ ConnIdle
    /\ NewIdle
    /\ GeyIdle
    /\ fkind \in Forwarders
    /\ fpc = "select"
    /\ fval = NoItem
    /\ consumer = "reading"
    /\ got = <<>>
    /\ nRead = 0
    /\ ErrCh = <<>>
    /\ keyPair = TRUE
    /\ GRPCCtx \in {WithCancel("owner"), NewOutgoingContext(FirstToken.Value)}
    /\ TokIdle(GRPCCtx.root # "owner")
    /\ BearerToken = (IF GRPCCtx.root = "owner" THEN 0 ELSE FirstToken.Value)
    /\ ExpiresAt = (IF GRPCCtx.root = "owner" THEN 0 ELSE FirstToken.Seconds)
    /\ mu = "free"
    /\ authRet = (IF GRPCCtx.root = "owner" THEN NotReturned ELSE NoErr)
    /\ ErrChan = <<>>
    /\ ppc = [main |-> "returned", task |-> "off", task2 |-> "off"]
    /\ ptok = [main |-> NoToken, task |-> NoToken, task2 |-> NoToken]
    /\ issued = (IF GRPCCtx.root = "owner" THEN 0 ELSE 1)
    /\ seen = [ctx |-> <<>>, bearer |-> 0, expiry |-> 0]
    /\ cancelled = {}
    /\ transactions = <<>>
    /\ otherBundles = FALSE
    /\ pc = "done"
    /\ i = 0
    /\ elapsed = 0
    /\ bundleResult = NoResult
    /\ bundleId = "none"
    /\ ret = [resp |-> "nil", sigs |-> <<>>, err |-> NoErr]
    /\ statuses = <<>>
    /\ nSend = 0 /\ nRecv = 0 /\ nRecvErr = 0 /\ nPoll = 0 /\ waited = 0
    /\ stream = "idle"
    /\ ledger = [s \in SigIds |-> "nil"]

FwdNext ==
    \/ FwdSelect
    \/ FwdRecv
    \/ FwdDeliver
    \/ FwdErrChReceive
    \/ ConsumerStop
    \/ FwdCancel

FwdSpec == FwdInit /\ [][FwdNext]_vars

\* C23: the goroutine never sets out to send the result of a read that returned
\* after its cancellation signal fired (a send that only a reader can complete),
\* and no such result reaches the reader.
C23_LateReadDiscarded ==
    /\ fpc \in {"sendErr", "send"} => ~fval.late
    /\ \A k \in 1..Len(got) : ~got[k].late

\* The goroutine runs, and the reader receives, whenever they can (the Go
\* scheduler); the reader may still stop.
FwdFairSpec == FwdSpec /\ WF_vars(FwdSelect \/ FwdRecv \/ FwdDeliver) /\ WF_vars(FwdErrChReceive)

\* the values the reader took from one of the two channels, in the order taken
TakenOn(ch) == SelectSeq(got, LAMBDA v : v.ch = ch)

\* how many copies of read number s are under way or with the reader
Copies(s) ==
    Cardinality({k \in 1..Len(got) : got[k].seq = s})
    + Cardinality({k \in 1..Len(ErrCh) : ErrCh[k].seq = s})
    + (IF fval.seq = s THEN 1 ELSE 0)

\* C39: every value sub.Recv() returned is delivered exactly once, messages on
\* the update channel and errors on the error channel, each channel in the
\* order of the reads; and while the reader keeps receiving, every value read
\* reaches it.
C39_ExactlyOnceInOrder ==
    /\ [](\A k \in 1..Len(got) : got[k].ch = (IF got[k].kind = "err" THEN "errors" ELSE "updates"))
    /\ [](\A ch \in {"updates", "errors"} :
            \A j, k \in 1..Len(TakenOn(ch)) : j < k => TakenOn(ch)[j].seq < TakenOn(ch)[k].seq)
    /\ [](\A s \in 1..nRead : Copies(s) = 1)
    /\ \A s \in 1..MaxReads :
            (nRead >= s) ~> (consumer = "stopped" \/ \E k \in 1..Len(got) : got[k].seq = s)

C39_Witness ==
    /\ consumer = "reading"
    /\ nRead = MaxReads
    /\ Len(got) = MaxReads
    /\ TakenOn("updates") # <<>>
    /\ TakenOn("errors") # <<>>

(***************************************************************************)
(* The constructors NewSearcherClient, NewValidator and NewRelayer: the    *)
(* call of CreateGRPCConnection, the handshake when a key pair is given,   *)
(* for the searcher the bundle-result subscription, and then one operation *)
(* on the client that was returned.                                        *)
(***************************************************************************)
Constructors == {"Searcher", "Validator", "Relayer"}

\* No call of SendBundleWithConfirmation is under way.
CallIdle ==
    /\ transactions = <<>>
    /\ otherBundles = FALSE
    /\ pc = "done"
    /\ i = 0
    /\ elapsed = 0
    /\ bundleResult = NoResult
    /\ bundleId = "none"
    /\ ret = [resp |-> "nil", sigs |-> <<>>, err |-> NoErr]
    /\ statuses = <<>>
    /\ nSend = 0 /\ nRecv = 0 /\ nRecvErr = 0 /\ nPoll = 0 /\ waited = 0
    /\ stream = "idle"
    /\ ledger = [s \in SigIds |-> "nil"]

\* searcher.go:31-50, validator.go:27-42, part_006:26-41: the result of
\* CreateGRPCConnection, then the session: NewAuthenticationService on
\* context.Background() with a key pair; without one a bare session holding ctx
\* (searcher) or none at all (validator, relayer).
NewDialled ==
    /\ cpc = "dial" /\ mpc = "done"
    /\ IF connRet.err # NoErr
       THEN cpc' = "failed" /\ UNCHANGED <<authService, GRPCCtx, ppc>>
       ELSE IF keyPair
       THEN /\ authService' = "session"
            /\ GRPCCtx' = Background
            /\ ppc' = [main |-> "challenge", task |-> "off", task2 |-> "off"]
            /\ cpc' = "auth"
       ELSE IF ckind = "Searcher"
       THEN /\ authService' = "bare"
            /\ GRPCCtx' = ManagerCtx
            /\ cpc' = "subscribe"
            /\ UNCHANGED ppc
       ELSE /\ cpc' = "returned"
            /\ UNCHANGED <<authService, GRPCCtx, ppc>>
    /\ UNCHANGED <<ckind, opRet, keyPair, BearerToken, ExpiresAt, mu, authRet, ErrChan, ptok, issued,
                   seen, cancelled, callVars, connVars, fwdVars, tokVars, geyVars>>

\* searcher.go:42-44, validator.go:39-41, part_006:38-40: the result of
\* AuthenticateAndRefresh; its error is returned at once.
NewAuthenticated ==
    /\ cpc = "auth" /\ ppc.main \in {"returned", "failed"}
    /\ cpc' = (IF authRet # NoErr THEN "failed"
               ELSE IF ckind = "Searcher" THEN "subscribe" ELSE "returned")
    /\ UNCHANGED <<ckind, authService, opRet, authVars, cancelled, callVars, connVars, fwdVars,
                   tokVars, geyVars>>

\* searcher.go:52-60: SubscribeBundleResults on the session's context; its error
\* is returned.
NewSubscribed ==
    /\ cpc = "subscribe"
    /\ \E ok \in BOOLEAN :
         cpc' = (IF ok /\ ~Done(GRPCCtx) THEN "returned" ELSE "failed")
    /\ UNCHANGED <<ckind, authService, opRet, authVars, cancelled, callVars, connVars, fwdVars,
                   tokVars, geyVars>>

\* validator.go:55-63 and the like (part_006:54-61, searcher.go:75-81): an
\* operation hands c.AuthenticationService.GRPCCtx to the RPC; on a nil
\* AuthenticationService that is a nil dereference.
Operation ==
    /\ cpc = "returned" /\ opRet = "none"
    /\ IF authService = "nil"
       THEN opRet' = "panic"
       ELSE opRet' \in {"stream", "error"}
    /\ UNCHANGED <<ckind, cpc, authService, authVars, cancelled, callVars, connVars, fwdVars,
                   tokVars, geyVars>>

\* The transport connects the channel.
ChannelReady ==
    /\ conn # 0
    /\ chans[conn].state = "Idle"
    /\ chans' = [chans EXCEPT ![conn].state = "Ready"]
    /\ UNCHANGED <<grpcAddr, chErr, conn, connRet, mpc, hpc, retries, state, herr, recvd, run,
                   replaced, authVars, cancelled, callVars, fwdVars, tokVars, newVars, geyVars>>

\* A constructor called with a live context, a well-formed endpoint and with or
\* without a key pair.
NewInit ==
    /\ CallIdle
    /\ FwdIdle
    /\ GeyIdle
    /\ ckind \in Constructors
    /\ cpc = "dial"
    /\ authService = "nil"
    /\ opRet = "none"
    /\ grpcAddr = <<"https", ":", "/", "/", "host">>
    /\ chErr = "unbuffered"
    /\ chans = <<>>
    /\ conn = 0
    /\ connRet = [conn |-> 0, err |-> NotReturned]
    /\ mpc = "call"
    /\ hpc = "off"
    /\ retries = 0
    /\ state = "none"
    /\ herr = NoErr
    /\ recvd = NoErr
    /\ run = 0
    /\ replaced = 0
    /\ keyPair \in BOOLEAN
    /\ TokIdle(FALSE)
    /\ GRPCCtx = Background
    /\ BearerToken = 0
    /\ ExpiresAt = 0
    /\ mu = "free"
    /\ authRet = NotReturned
    /\ ErrChan = <<>>
    /\ ppc = [main |-> "off", task |-> "off", task2 |-> "off"]
    /\ ptok = [main |-> NoToken, task |-> NoToken, task2 |-> NoToken]
    /\ issued = 0
    /\ seen = [ctx |-> <<>>, bearer |-> 0, expiry |-> 0]
    /\ cancelled = {}

NewNext ==
    \/ CreateGRPCConnection
    \/ ReturnConn
    \/ NewDialled
    \/ NewAuthenticated
    \/ NewSubscribed
    \/ Operation
    \/ HealthSelect
    \/ HealthWait
    \/ ChannelReady
    \/ AuthMain
    \/ RefreshTask

NewSpec == NewInit /\ [][NewNext]_vars

\* C36: no operation on a client ends in the dereference of a missing session.
C36_KeylessClientUsable == opRet # "panic"

\* C37: once a constructor has failed after its channel was opened, every channel
\* it opened is closed and neither the health goroutine nor a refresh goroutine
\* is left running.
C37_FailedConstructorLeavesNothing ==
    (cpc = "failed" /\ chans # <<>>) =>
        /\ \A k \in 1..Len(chans) : chans[k].state = "Shutdown"
        /\ hpc \in {"off", "exited"}
        /\ ppc.task \in {"off", "exited"}

(***************************************************************************)
(* The filter operations of a Geyser StreamClient (part_003:152-249): each *)
(* changes s.SubscribeRequest and then returns what                        *)
(* s.SubscribeClient.Send(s.SubscribeRequest) returns.  Slots stands for   *)
(* the five maps whose two operations have the same code (Slots,           *)
(* Transactions, TransactionsStatus, Blocks, BlocksMeta, Entry).           *)
(***************************************************************************)
AccountIds == {"a", "b"}

Range(s) == {s[k] : k \in 1..Len(s)}

\* the account lists without a repeated account
AccountLists ==
    {<<>>} \cup {<<a>> : a \in AccountIds}
           \cup {<<p[1], p[2]>> : p \in {q \in AccountIds \X AccountIds : q[1] # q[2]}}

\* s.SubscribeClient.Send(s.SubscribeRequest) once the request has become req:
\* the server has the request or the call returns an error.
Send(req) ==
    /\ SubscribeRequest' = req
    /\ \E ok \in BOOLEAN :
         IF ok THEN received' = req /\ sendRet' = "nil"
               ELSE sendRet' = "err" /\ UNCHANGED received

\* a nil pointer is dereferenced: the operation panics before it changes anything
Panic == sendRet' = "panic" /\ UNCHANGED <<SubscribeRequest, received>>

GeyUnchanged == UNCHANGED <<newVars, fwdVars, tokVars, connVars, authVars, cancelled, callVars>>

\* part_003:152-155
SubscribeAccounts ==
    /\ \E n \in FilterNames, req \in AccountLists :
         Send([SubscribeRequest EXCEPT !.Accounts[n] = [set |-> TRUE, Account |-> req]])
    /\ GeyUnchanged

\* part_003:157-160, called with an account the filter does not hold yet
AppendAccounts ==
    /\ \E n \in FilterNames, a \in AccountIds :
         IF ~SubscribeRequest.Accounts[n].set
         THEN Panic
         ELSE /\ a \notin Range(SubscribeRequest.Accounts[n].Account)
              /\ Send([SubscribeRequest EXCEPT !.Accounts[n].Account = Append(@, a)])
    /\ GeyUnchanged

\* part_003:162-165 (UnsubscribeAllAccounts, part_003:176-179, is the same code)
UnsubscribeAccountsByID ==
    /\ \E n \in FilterNames :
         Send([SubscribeRequest EXCEPT !.Accounts[n] = NoFilter])
    /\ GeyUnchanged

\* part_003:167-174
UnsubscribeAccounts ==
    /\ \E n \in FilterNames, accounts \in SUBSET AccountIds :
         IF accounts # {} /\ ~SubscribeRequest.Accounts[n].set
         THEN Panic
         ELSE Send([SubscribeRequest EXCEPT !.Accounts[n].Account =
                        SelectSeq(@, LAMBDA a : a \notin accounts)])
    /\ GeyUnchanged

\* part_003:181-184
SubscribeSlots ==
    /\ \E n \in FilterNames : Send([SubscribeRequest EXCEPT !.Slots[n] = "req"])
    /\ GeyUnchanged

\* part_003:186-189
UnsubscribeSlots ==
    /\ \E n \in FilterNames : Send([SubscribeRequest EXCEPT !.Slots[n] = "nil"])
    /\ GeyUnchanged

\* part_003:241-244
SubscribeAccountDataSlice ==
    /\ Send([SubscribeRequest EXCEPT !.AccountsDataSlice = <<"slice">>])
    /\ GeyUnchanged

\* part_003:246-249
UnsubscribeAccountDataSlice ==
    /\ Send([SubscribeRequest EXCEPT !.AccountsDataSlice = <<>>])
    /\ GeyUnchanged

\* NewSubscribeClient has returned (part_003:51-77); no other client is in use.
GeyInit ==
    /\ CallIdle
    /\ ConnIdle
    /\ FwdIdle
    /\ NewIdle
    /\ GeyIdle
    /\ TokIdle(FALSE)
    /\ keyPair = FALSE
    /\ GRPCCtx = Background
    /\ BearerToken = 0
    /\ ExpiresAt = 0
    /\ mu = "free"
    /\ authRet = NotReturned
    /\ ErrChan = <<>>
    /\ ppc = [main |-> "off", task |-> "off", task2 |-> "off"]
    /\ ptok = [main |-> NoToken, task |-> NoToken, task2 |-> NoToken]
    /\ issued = 0
    /\ seen = [ctx |-> <<>>, bearer |-> 0, expiry |-> 0]
    /\ cancelled = {}

GeyNext ==
    \/ SubscribeAccounts
    \/ AppendAccounts
    \/ UnsubscribeAccountsByID
    \/ UnsubscribeAccounts
    \/ SubscribeSlots
    \/ UnsubscribeSlots
    \/ SubscribeAccountDataSlice
    \/ UnsubscribeAccountDataSlice

GeySpec == GeyInit /\ [][GeyNext]_vars

\* C40: after any sequence of filter operations the request held locally is the
\* last request the server received; an operation whose Send fails leaves the
\* local request as it was.
C40_LocalIsWhatServerHas == SubscribeRequest = received

====
